---------------------------- MODULE Spec2Model ----------------------------
(***************************************************************************)
(* Sliding-window RAG: the relevance classifiers (WindowRetriever and the  *)
(* cascading BestWindowRetriever), the context-budget-aware synthesis      *)
(* batcher (SimpleSynthesis), the pipeline (RAGEngine.run), the chunkers   *)
(* (FB2Chunker, TextChunker) and the model lifecycle of the generation     *)
(* engine (LlamacppInferenceEngine), modelled as state machines.           *)
(*                                                                         *)
(* Strings of the source that are not ASCII are transliterated: "da" is    *)
(* the Russian affirmative, "net" the Russian negative; "" is the empty    *)
(* string that _extract_yes_no returns for an ambiguous output.            *)
(***************************************************************************)
EXTENDS Integers, Sequences, FiniteSets, TLC

VARIABLES
    \* ---- retrieval stage (WindowRetriever / BestWindowRetriever) ----
    strategy,                \* which retriever class runs: "window" | "best_window"
    total_chunks,            \* len(chunks)
    top_k,                   \* self.config.top_k
    fallback_inference_engine, \* TRUE iff a fallback engine was injected
    rpc,                     \* position inside retrieve()
    i,                       \* 1-based index of the chunk of the current iteration
    processed_llm_response,  \* the verdict the evaluation step will read
    relevant_chunks,         \* the list retrieve() returns (chunk indices)
    retrieved_count,
    primary_loaded,          \* inference_engine._loaded_model is set
    fallback_loaded,         \* fallback_inference_engine._loaded_model is set
    calls,                   \* history: the generation calls made for chunk i, in order
    fallback_loads,          \* history: fallback load_model() calls made for chunk i
    final_verdict,           \* history: per chunk, the verdict the evaluation step used
    generation_calls,        \* history: number of generate() calls of the whole run
    error_events,            \* history: number of "error" notifications sent
    \* ---- synthesis stage (SimpleSynthesis.synthesize) ----
    chunk_tokens,            \* get_token_count(chunk.content), per chunk
    n_ctx,                   \* self.inference_config.n_ctx
    context_token_buffer,    \* self.config.context_token_buffer
    spc,                     \* position inside synthesize()
    j,                       \* number of relevant chunks the packing loop has taken
    context_blocks,          \* the closed context blocks, each the list of its chunks
    current_context_block_content,
    current_context_block_tokens,
    b,                       \* number of context blocks the generation loop has taken
    all_answers,             \* one contribution per processed block
    all_citations,
    synthesis_loaded,        \* the synthesis engine's _loaded_model is set
    generation_log,          \* history: per generate() call, its block and outcome
    synthesis_result,        \* << >>, or the SynthesisResult returned, in a list
    \* ---- pipeline (RAGEngine.run) ----
    run_pc,                  \* position inside run()
    run_events,              \* history: the "complete"/"error" events run() emitted
    synthesize_answer_calls, \* history: number of calls of the synthesis stage
    run_result,              \* "", or the answer of the SynthesisResult run() returned
    input_path,              \* what rag_query.input_path points at
    \* ---- chunking (FB2Chunker) ----
    full_text_content,       \* the extracted text, a sequence of characters
    chunk_by,                \* self.config.chunk_by
    chunk_size,              \* self.config.chunk_size
    overlap_size,            \* self.config.overlap_size
    min_chunk_size,          \* self.config.min_chunk_size
    cpc,                     \* position inside chunk_file()
    current_offset,          \* current_offset of _chunk_by_characters
    raw_chunks,              \* the (content, start, end) tuples of the split so far
    processed_chunks,        \* what _apply_overlap_and_min_size returned
    policy_overlap_size,     \* history: overlap_size when chunk_file() was called
    \* ---- generation capability (LlamacppInferenceEngine) ----
    loaded_model,            \* self._loaded_model: << >> for None, or << handle >>
    llama_constructions,     \* history: number of Llama(...) objects constructed
    lifecycle,               \* history: the load_model/unload_model calls, in order
    \* ---- verdict parsing (_extract_yes_no called on its own) ----
    llm_response,            \* the generated text handed to _extract_yes_no
    xpc,                     \* position of the _extract_yes_no call
    extracted,               \* what _extract_yes_no returned
    \* ---- TextChunker.chunk_file ----
    text_sentences,          \* sentences: the length of each sentence of the text
    text_chunk_size,         \* self.chunk_size of the TextChunker
    tpc,                     \* position inside TextChunker.chunk_file()
    taken,                   \* number of sentences the loop has taken
    text_chunks,             \* chunks: the chunk list, each chunk the pieces it holds
    current_chunk,           \* the sentences held in the buffer
    current_length

rvars == << strategy, total_chunks, top_k, fallback_inference_engine, rpc, i,
            processed_llm_response, relevant_chunks, retrieved_count,
            primary_loaded, fallback_loaded, calls, fallback_loads,
            final_verdict, generation_calls, error_events >>

svars == << chunk_tokens, n_ctx, context_token_buffer, spc, j, context_blocks,
            current_context_block_content, current_context_block_tokens, b,
            all_answers, all_citations, synthesis_loaded, generation_log,
            synthesis_result >>

evars == << run_pc, run_events, synthesize_answer_calls, run_result, input_path >>

kvars == << full_text_content, chunk_by, chunk_size, overlap_size, min_chunk_size, cpc,
            current_offset, raw_chunks, processed_chunks, policy_overlap_size >>

lvars == << loaded_model, llama_constructions, lifecycle >>

xvars == << llm_response, xpc, extracted >>

tvars == << text_sentences, text_chunk_size, tpc, taken, text_chunks, current_chunk,
            current_length >>

vars == << rvars, svars, evars, kvars, lvars, xvars, tvars >>

---------------------------------------------------------------------------
(* Bounds of the model. *)

MaxChunks == 5        \* longest chunk list handed to retrieve()
MaxTopK == 2          \* largest result cap tried (0 means "no cap")
MaxWords == 2         \* longest generated text, in words
MaxRelevant == 3      \* longest relevant-chunk list handed to synthesize()

---------------------------------------------------------------------------
(* A stage that is not running: its variables before the stage is called. *)

\* retrieve() has not been called.
RetrieveIdle ==
    /\ strategy = "best_window"
    /\ total_chunks = 0
    /\ top_k = 0
    /\ fallback_inference_engine = FALSE
    /\ rpc = "idle"
    /\ i = 0
    /\ processed_llm_response = ""
    /\ retrieved_count = 0
    /\ primary_loaded = FALSE
    /\ fallback_loaded = FALSE
    /\ calls = << >>
    /\ fallback_loads = 0
    /\ final_verdict = << >>
    /\ generation_calls = 0
    /\ error_events = 0

\* synthesize() has not been called.
SynthesizeIdle ==
    /\ chunk_tokens = << >>
    /\ n_ctx = 0
    /\ context_token_buffer = 0
    /\ spc = "idle"
    /\ j = 0
    /\ context_blocks = << >>
    /\ current_context_block_content = << >>
    /\ current_context_block_tokens = 0
    /\ b = 0
    /\ all_answers = << >>
    /\ all_citations = << >>
    /\ synthesis_loaded = FALSE
    /\ generation_log = << >>
    /\ synthesis_result = << >>

\* run() has not been called.
RunIdle ==
    /\ run_pc = "idle"
    /\ run_events = << >>
    /\ synthesize_answer_calls = 0
    /\ run_result = ""
    /\ input_path = "documents"

\* The engine of the lifecycle study after __init__ (line 24), with no call
\* made.
EngineIdle ==
    /\ loaded_model = << >>
    /\ llama_constructions = 0
    /\ lifecycle = << >>

\* _extract_yes_no has not been called on its own.
ExtractIdle ==
    /\ llm_response = << >>
    /\ xpc = "idle"
    /\ extracted = ""

\* TextChunker.chunk_file() has not been called.
TextChunkerIdle ==
    /\ text_sentences = << >>
    /\ text_chunk_size = 1
    /\ tpc = "idle"
    /\ taken = 0
    /\ text_chunks = << >>
    /\ current_chunk = << >>
    /\ current_length = 0

\* chunk_file() has not been called.
ChunkIdle ==
    /\ full_text_content = << >>
    /\ chunk_by = "characters"
    /\ chunk_size = 1
    /\ overlap_size = 0
    /\ min_chunk_size = 0
    /\ cpc = "idle"
    /\ current_offset = 0
    /\ raw_chunks = << >>
    /\ processed_chunks = << >>
    /\ policy_overlap_size = 0

---------------------------------------------------------------------------
(* Generated text and the verdict parser. *)

\* Words a model may produce.  "nope" contains a verdict token as a substring
\* but not as a whole word (\b...\b does not match).
Words == {"da", "YES", "net", "No", "nope"}

\* str.lower() on one word.
Lower(w) ==
    CASE w = "YES" -> "yes"
      [] w = "No"  -> "no"
      [] OTHER     -> w

\* A generated text: a sequence of words separated by non-word characters.
Texts == UNION { [1..k -> Words] : k \in 0..MaxWords }

\* yes_pattern = \b(da|yes)\b, no_pattern = \b(net|no)\b
yes_pattern == {"da", "yes"}
no_pattern == {"net", "no"}

\* pattern.search(text): some whole word of the text is one of the alternatives.
Search(pattern, text) == \E k \in DOMAIN text : text[k] \in pattern

\* Variant of lines 209-212 that looks for the negative first.
ExtractYesNoNegativeFirst(text) ==
    LET text_lower == [k \in DOMAIN text |-> Lower(text[k])]
    IN  IF Search(no_pattern, text_lower) THEN "net"
        ELSE IF Search(yes_pattern, text_lower) THEN "da"
        ELSE ""

\* _extract_yes_no: lower-case the text, look for the affirmative first.
ExtractYesNo(text) ==
    LET text_lower == [k \in DOMAIN text |-> Lower(text[k])]
    IN  IF Search(yes_pattern, text_lower) THEN "da"
        ELSE IF Search(no_pattern, text_lower) THEN "net"
        ELSE ""

---------------------------------------------------------------------------
(* Conditions of BestWindowRetriever.retrieve. *)

\* Variant of line 88 that escalates on every verdict but "da".
NeedsFallbackUnlessYes(resp) ==
    resp # "da" /\ fallback_inference_engine

\* line 88: escalate to the fallback model?
NeedsFallback(resp) ==
    resp \notin {"da", "net"} /\ fallback_inference_engine

\* Variant of line 115 that runs the strict attempt on every verdict but "net".
NeedsStrictUnlessNo(resp) == resp # "net"

\* line 115: escalate to the strict attempt?
NeedsStrict(resp) == resp \notin {"da", "net"}

\* Variant of the cap test with > for >=.
TopKReachedOffByOne(count) == top_k > 0 /\ count > top_k

\* lines 176 (BestWindowRetriever) and 103 (WindowRetriever): the result cap
\* is reached.
TopKReached(count) == top_k > 0 /\ count >= top_k

\* Variant of the relevance test that accepts every verdict but "net".
IsRelevantUnlessNo(resp) == resp # "net"

\* lines 153 (BestWindowRetriever) and 80 (WindowRetriever): the verdict that
\* marks a chunk relevant.
IsRelevant(resp) == resp = "da"

Call(rung, verdict) == [rung |-> rung, verdict |-> verdict]

LogCall(rung, verdict) == Append(calls, Call(rung, verdict))

---------------------------------------------------------------------------
(* retrieve(): the state after the local variables are set up (lines 43-51). *)

InitRetrieve ==
    /\ strategy \in {"window", "best_window"}
    /\ total_chunks \in 0..MaxChunks
    /\ top_k \in 0..MaxTopK
    /\ fallback_inference_engine \in BOOLEAN
    /\ (strategy = "window" => ~fallback_inference_engine)
    /\ rpc = "load"
    /\ i = 0
    /\ processed_llm_response = ""
    /\ relevant_chunks = << >>
    /\ retrieved_count = 0
    /\ primary_loaded = FALSE
    /\ fallback_loaded = FALSE
    /\ calls = << >>
    /\ fallback_loads = 0
    /\ final_verdict = [c \in 1..total_chunks |-> "none"]
    /\ generation_calls = 0
    /\ error_events = 0
    /\ SynthesizeIdle
    /\ RunIdle
    /\ ChunkIdle
    /\ EngineIdle
    /\ ExtractIdle
    /\ TextChunkerIdle

\* Variables no step of retrieve() writes.
rconfig == << strategy, total_chunks, top_k, fallback_inference_engine, svars,
              evars, kvars, lvars, xvars, tvars >>

\* inference_engine.load_model() before the try block: it returns, or it raises
\* and the exception leaves retrieve().
LoadPrimary ==
    /\ rpc = "load"
    /\ \/ /\ primary_loaded' = TRUE
          /\ rpc' = "loop"
       \/ /\ primary_loaded' = primary_loaded
          /\ rpc' = "propagated"
    /\ UNCHANGED << rconfig, i, processed_llm_response, relevant_chunks,
                    retrieved_count, fallback_loaded, calls, fallback_loads,
                    final_verdict, generation_calls, error_events >>

\* What the progress sink does with an event: observer.update() returns, or
\* it raises (observer.py lines 29-32 call it without a try block).
SinkBehaviours == {"accepts", "raises"}

\* The control point after notify_observers("progress", ...) at the head of
\* the loop body.  In BestWindowRetriever the call is inside the try block
\* around the loop (lines 56-63), so an exception from the sink reaches the
\* except clause; in WindowRetriever it is outside the per-chunk try (lines
\* 48-55), so the exception passes through the finally clause and leaves
\* retrieve().
AfterProgressEvent(sink) ==
    IF sink = "accepts" THEN "attempt1"
    ELSE IF strategy = "best_window" THEN "except" ELSE "unwind"

\* for i, chunk in enumerate(chunks): the next chunk and its progress event,
\* or the loop is exhausted.
NextChunk ==
    /\ rpc = "loop"
    /\ IF i < total_chunks
          THEN /\ i' = i + 1
               /\ calls' = << >>
               /\ fallback_loads' = 0
               /\ \E sink \in SinkBehaviours : rpc' = AfterProgressEvent(sink)
          ELSE /\ UNCHANGED << i, calls, fallback_loads >>
               /\ rpc' = "finally"
    /\ UNCHANGED << rconfig, processed_llm_response, relevant_chunks,
                    retrieved_count, primary_loaded, fallback_loaded,
                    final_verdict, generation_calls, error_events >>

\* BestWindowRetriever, attempt 1: the primary model (lines 67-88, 148-150).
Attempt1 ==
    /\ rpc = "attempt1"
    /\ strategy = "best_window"
    /\ generation_calls' = generation_calls + 1
    /\ \/ \E text \in Texts :
            LET resp == ExtractYesNo(text) IN
            /\ processed_llm_response' = resp
            /\ calls' = LogCall("primary", resp)
            /\ rpc' = IF NeedsFallback(resp) THEN "fallback_load" ELSE "evaluate"
       \/ /\ calls' = LogCall("primary", "raise")
          /\ processed_llm_response' = processed_llm_response
          /\ rpc' = "except"
    /\ UNCHANGED << rconfig, i, relevant_chunks, retrieved_count, primary_loaded,
                    fallback_loaded, fallback_loads, final_verdict, error_events >>

\* self.fallback_inference_engine.load_model() (line 94): it returns, or raises.
LoadFallback ==
    /\ rpc = "fallback_load"
    /\ fallback_loads' = fallback_loads + 1
    /\ \/ /\ fallback_loaded' = TRUE
          /\ rpc' = "attempt2"
       \/ /\ fallback_loaded' = fallback_loaded
          /\ rpc' = "except"
    /\ UNCHANGED << rconfig, i, processed_llm_response, relevant_chunks,
                    retrieved_count, primary_loaded, calls, final_verdict,
                    generation_calls, error_events >>

\* Attempt 2: the fallback model with its configured parameters (lines 96-115,
\* 142-144).
Attempt2 ==
    /\ rpc = "attempt2"
    /\ generation_calls' = generation_calls + 1
    /\ \/ \E text \in Texts :
            LET resp == ExtractYesNo(text) IN
            /\ calls' = LogCall("fallback", resp)
            /\ IF NeedsStrict(resp)
                  THEN /\ rpc' = "attempt3"
                       /\ processed_llm_response' = processed_llm_response
                  ELSE /\ rpc' = "fallback_unload"
                       /\ processed_llm_response' = resp
       \/ /\ calls' = LogCall("fallback", "raise")
          /\ processed_llm_response' = processed_llm_response
          /\ rpc' = "except"
    /\ UNCHANGED << rconfig, i, relevant_chunks, retrieved_count, primary_loaded,
                    fallback_loaded, fallback_loads, final_verdict, error_events >>

\* Attempt 3: the fallback model with the strict parameters (lines 119-141).
Attempt3 ==
    /\ rpc = "attempt3"
    /\ generation_calls' = generation_calls + 1
    /\ \/ \E text \in Texts :
            LET resp == ExtractYesNo(text) IN
            /\ calls' = LogCall("strict", resp)
            /\ processed_llm_response' = resp
            /\ rpc' = "fallback_unload"
       \/ /\ calls' = LogCall("strict", "raise")
          /\ processed_llm_response' = processed_llm_response
          /\ rpc' = "except"
    /\ UNCHANGED << rconfig, i, relevant_chunks, retrieved_count, primary_loaded,
                    fallback_loaded, fallback_loads, final_verdict, error_events >>

\* self.fallback_inference_engine.unload_model() (line 147).
UnloadFallback ==
    /\ rpc = "fallback_unload"
    /\ fallback_loaded' = FALSE
    /\ rpc' = "evaluate"
    /\ UNCHANGED << rconfig, i, processed_llm_response, relevant_chunks,
                    retrieved_count, primary_loaded, calls, fallback_loads,
                    final_verdict, generation_calls, error_events >>

\* The evaluation of the verdict (BestWindowRetriever lines 152-184,
\* WindowRetriever lines 80-110).
Evaluate ==
    /\ rpc = "evaluate"
    /\ final_verdict' = [final_verdict EXCEPT ![i] = processed_llm_response]
    /\ IF IsRelevant(processed_llm_response)
          THEN /\ relevant_chunks' = Append(relevant_chunks, i)
               /\ retrieved_count' = retrieved_count + 1
               /\ rpc' = IF TopKReached(retrieved_count + 1) THEN "finally" ELSE "loop"
          ELSE /\ UNCHANGED << relevant_chunks, retrieved_count >>
               /\ rpc' = "loop"
    /\ UNCHANGED << rconfig, i, processed_llm_response, primary_loaded,
                    fallback_loaded, calls, fallback_loads, generation_calls,
                    error_events >>

\* BestWindowRetriever: the except clause around the whole loop (lines 193-195).
ExceptRetrieve ==
    /\ rpc = "except"
    /\ error_events' = error_events + 1
    /\ rpc' = "finally"
    /\ UNCHANGED << rconfig, i, processed_llm_response, relevant_chunks,
                    retrieved_count, primary_loaded, fallback_loaded, calls,
                    fallback_loads, final_verdict, generation_calls >>

\* WindowRetriever: the single attempt, inside the per-chunk try (lines 58-78);
\* an exception is logged, notified and the loop continues (lines 112-115).
WindowAttempt ==
    /\ rpc = "attempt1"
    /\ strategy = "window"
    /\ generation_calls' = generation_calls + 1
    /\ \/ \E text \in Texts :
            LET resp == ExtractYesNo(text) IN
            /\ processed_llm_response' = resp
            /\ calls' = LogCall("primary", resp)
            /\ rpc' = "evaluate"
            /\ error_events' = error_events
       \/ /\ calls' = LogCall("primary", "raise")
          /\ processed_llm_response' = processed_llm_response
          /\ error_events' = error_events + 1
          /\ rpc' = "loop"
    /\ UNCHANGED << rconfig, i, relevant_chunks, retrieved_count, primary_loaded,
                    fallback_loaded, fallback_loads, final_verdict >>

\* Variant of unload_model() that leaves the model in memory.
UnloadModelKeepsIt(loaded) == loaded

\* llamacpp_inference.py lines 115-125: unload_model() clears _loaded_model,
\* whether or not a model was loaded.
UnloadModel(loaded) == FALSE

\* finally: inference_engine.unload_model(), then the "complete" notification
\* and return relevant_chunks.
FinallyRetrieve ==
    /\ rpc = "finally"
    /\ primary_loaded' = UnloadModel(primary_loaded)
    /\ rpc' = "returned"
    /\ UNCHANGED << rconfig, i, processed_llm_response, relevant_chunks,
                    retrieved_count, fallback_loaded, calls, fallback_loads,
                    final_verdict, generation_calls, error_events >>

\* WindowRetriever, finally clause while an exception raised by the progress
\* sink propagates (lines 117-119): the model is unloaded and the exception
\* leaves retrieve().
UnwindRetrieve ==
    /\ rpc = "unwind"
    /\ primary_loaded' = UnloadModel(primary_loaded)
    /\ rpc' = "propagated"
    /\ UNCHANGED << rconfig, i, processed_llm_response, relevant_chunks,
                    retrieved_count, fallback_loaded, calls, fallback_loads,
                    final_verdict, generation_calls, error_events >>

NextRetrieve ==
    \/ LoadPrimary
    \/ NextChunk
    \/ Attempt1
    \/ LoadFallback
    \/ Attempt2
    \/ Attempt3
    \/ UnloadFallback
    \/ Evaluate
    \/ ExceptRetrieve
    \/ WindowAttempt
    \/ FinallyRetrieve
    \/ UnwindRetrieve

SpecRetrieve == InitRetrieve /\ [][NextRetrieve]_vars

---------------------------------------------------------------------------
(* Properties of the relevance classifiers. *)

Range(s) == {s[k] : k \in DOMAIN s}

\* The rung of the ladder that makes the k-th generation call for a chunk.
RungOf(k) == CASE k = 1 -> "primary" [] k = 2 -> "fallback" [] OTHER -> "strict"

\* Every rung that exists for chunk i was tried and none gave a verdict.
LadderExhausted ==
    \/ Len(calls) = 3 /\ \A k \in 1..3 : calls[k].verdict = ""
    \/ Len(calls) = 1 /\ calls[1].verdict = "" /\ ~fallback_inference_engine

\* C1: cascade short-circuit.  Once the primary attempt for a chunk parsed to
\* "da" or "net", no other generation call is made for that chunk, the
\* fallback model is neither loaded nor invoked, and the verdict the
\* evaluation step uses is the primary one.
CascadeShortCircuit ==
    (Len(calls) >= 1 /\ calls[1].verdict \in {"da", "net"}) =>
        /\ Len(calls) = 1
        /\ calls[1].rung = "primary"
        /\ fallback_loads = 0
        /\ ~fallback_loaded
        /\ rpc \notin {"fallback_load", "attempt2", "attempt3", "fallback_unload"}
        /\ processed_llm_response = calls[1].verdict
        /\ (rpc \in {"loop", "finally", "returned"} =>
                /\ final_verdict[i] = calls[1].verdict
                /\ (i \in Range(relevant_chunks)) = (calls[1].verdict = "da"))

\* Witness of C1: BestWindowRetriever with a fallback configured has finished a
\* chunk whose primary output parsed to "net", after one generation call.
CascadeShortCircuitWitness ==
    /\ strategy = "best_window"
    /\ fallback_inference_engine
    /\ rpc = "loop"
    /\ Len(calls) = 1
    /\ calls[1].verdict = "net"
    /\ final_verdict[i] = "net"

\* C2: cascade correctness.  When the primary output is ambiguous and the
\* first fallback attempt parses to "da", the chunk's verdict is "da", exactly
\* two generation calls are made for the chunk and the strict attempt is never
\* invoked.
CascadeCorrectness ==
    (Len(calls) >= 2 /\ calls[1].verdict = "" /\ calls[2].verdict = "da") =>
        /\ fallback_inference_engine
        /\ Len(calls) = 2
        /\ calls[2].rung = "fallback"
        /\ rpc # "attempt3"
        /\ processed_llm_response = "da"
        /\ (rpc \in {"loop", "finally", "returned"} =>
                /\ final_verdict[i] = "da"
                /\ i \in Range(relevant_chunks))

\* Witness of C2: a chunk was accepted on the second generation call.
CascadeCorrectnessWitness ==
    /\ rpc = "loop"
    /\ Len(calls) = 2
    /\ calls[1].verdict = ""
    /\ calls[2].verdict = "da"
    /\ final_verdict[i] = "da"
    /\ i \in Range(relevant_chunks)

\* C3: a rung that throws does not abort classification.  A raising generation
\* attempt never leads to the except clause that ends the loop, and when
\* BestWindowRetriever.retrieve returns without having reached the result cap,
\* every chunk was visited.
RungFailureDoesNotAbort ==
    strategy = "best_window" =>
        /\ (rpc = "except" => \A k \in DOMAIN calls : calls[k].verdict # "raise")
        /\ (/\ rpc = "returned"
            /\ ~TopKReached(retrieved_count)
            /\ \E k \in DOMAIN calls : calls[k].verdict = "raise")
              => i = total_chunks

LadderExhaustion ==
    /\ Len(calls) <= 3
    /\ \A k \in DOMAIN calls : calls[k].rung = RungOf(k)
    /\ (Len(calls) = 3 => calls[1].verdict = "" /\ calls[2].verdict = "")
    /\ (Len(calls) >= 2 => fallback_inference_engine)
    /\ \A c \in 1..total_chunks :
          final_verdict[c] = "" => c \notin Range(relevant_chunks)
    /\ LadderExhausted =>
          /\ rpc # "except"
          /\ i \notin Range(relevant_chunks)
          /\ (rpc \in {"loop", "finally", "returned"} => final_verdict[i] = "")
          /\ (rpc \in {"finally", "returned"} => i = total_chunks)

\* Witness of C5: three ambiguous outputs for a chunk that is not the last
\* one; the chunk was skipped and the loop is about to take the next chunk.
LadderExhaustionWitness ==
    /\ Len(calls) = 3
    /\ LadderExhausted
    /\ rpc = "loop"
    /\ i < total_chunks
    /\ final_verdict[i] = ""
    /\ i \notin Range(relevant_chunks)

---------------------------------------------------------------------------
(* SimpleSynthesis: texts, chunks and citations.                            *)
(* A chunk's content and a quotation are sequences of sentences; a          *)
(* substring test is made at the granularity of sentences.                  *)

SafetyMargin == 50      \* the literal 50 of the packing condition

\* Token counts get_token_count may return, and the configured sizes.
TokenCounts == {10, 60, 200}
NCtxChoices == {180}
BufferChoices == {50, 200}

\* The content of the chunk with index c.
Corpus == << << "s1", "s2" >>, << "s2", "s3" >>, << "Q1", "s3" >> >>
ContentOf(c) == Corpus[((c - 1) % Len(Corpus)) + 1]

\* str.lower() on a sentence: "Q1" and "q1" differ only in case.
LowerSentence(x) == IF x = "Q1" THEN "q1" ELSE x
LowerText(t) == [k \in DOMAIN t |-> LowerSentence(t[k])]

\* a in b, for str: a is a contiguous part of b.
IsSubstring(a, bb) ==
    \E off \in 0..(Len(bb) - Len(a)) : \A k \in 1..Len(a) : a[k] = bb[off + k]

\* A piece of generated text: a prose word, or the citation marker
\* [CITATION: "..."] around a quotation.
Prose(word) == [kind |-> "prose", text |-> << word >>]
Cite(quote) == [kind |-> "citation", text |-> quote]
IsMarker(seg) == seg.kind = "citation"

\* What generate() may return for a block: prose words and citation markers.
\* "zz" is a sentence no chunk contains.
Outputs == { << Prose("p") >>,
             << Cite(<< "q1" >>), Prose("p"), Cite(<< "Q1" >>) >>,
             << Cite(<< "s3", "s2", "zz" >>), Prose("r") >>,
             << Cite(<< "s3" >>) >> }

\* translate("synthesis_generation_error").format(error=str(e))
ErrorPlaceholder == << "synthesis_generation_error" >>

\* translate("no_relevant_chunks_for_synthesis")
NoRelevantChunksAnswer == << "no_relevant_chunks_for_synthesis" >>

\* _parse_answer_and_citations: the quotations of the markers, in order, and the
\* output with the markers removed.
ParseAnswerAndCitations(llm_output) ==
    LET matches == SelectSeq(llm_output, IsMarker)
        NotMarker(seg) == ~IsMarker(seg)
        kept == SelectSeq(llm_output, NotMarker)
    IN  [clean_answer |-> [k \in DOMAIN kept |-> kept[k].text[1]],
         extracted_citations |-> [k \in DOMAIN matches |-> matches[k].text]]

\* Variant of the citation record that takes the first chunk of the corpus
\* instead of the chunk the text was found in.
CitationOfFirstChunk(text, c) ==
    [text |-> text, chunk_id |-> 1, start_offset |-> 100,
     end_offset |-> 100 + Len(ContentOf(1))]

\* The citation record built from a text and the chunk it was found in.
Citation(text, c) ==
    [text |-> text, chunk_id |-> c, start_offset |-> 100 * c,
     end_offset |-> 100 * c + Len(ContentOf(c))]

\* The positions of the chunk list whose chunk contains the text, ignoring case.
Matches(text, chunks) ==
    {k \in DOMAIN chunks :
        IsSubstring(LowerText(text), LowerText(ContentOf(chunks[k])))}

\* Variant of the chunk loop that keeps the last chunk containing the text.
Max(S) == CHOOSE x \in S : \A y \in S : x >= y

\* The chunk loop stops at the first chunk containing the text (the break of
\* lines 211 and 238): the least position.
Min(S) == CHOOSE x \in S : \A y \in S : x <= y

\* Variant of the sentence loop (lines 220-238) that leaves the loop at the
\* first sentence some chunk contains.
RECURSIVE SentenceCitationsFirstOnly(_, _, _)
SentenceCitationsFirstOnly(text, k, chunks) ==
    IF k > Len(text) THEN << >>
    ELSE LET sentence == << text[k] >>
             hit == Matches(sentence, chunks)
         IN  IF hit = {} THEN SentenceCitationsFirstOnly(text, k + 1, chunks)
             ELSE << Citation(sentence, chunks[Min(hit)]) >>

\* The citations one extracted quotation yields: the first chunk that contains
\* it whole; failing that, for each of its sentences that some chunk contains,
\* the first chunk containing that sentence.
RECURSIVE SentenceCitations(_, _, _)
SentenceCitations(text, k, chunks) ==
    IF k > Len(text) THEN << >>
    ELSE LET sentence == << text[k] >>
             hit == Matches(sentence, chunks)
         IN  (IF hit = {} THEN << >>
              ELSE << Citation(sentence, chunks[Min(hit)]) >>)
             \o SentenceCitations(text, k + 1, chunks)

CandidateCitations(text, chunks) ==
    LET hit == Matches(text, chunks)
    IN  IF hit # {} THEN << Citation(text, chunks[Min(hit)]) >>
        ELSE SentenceCitations(text, 1, chunks)

RECURSIVE FoundCitations(_, _)
FoundCitations(extracted_citations, chunks) ==
    IF extracted_citations = << >> THEN << >>
    ELSE CandidateCitations(Head(extracted_citations), chunks)
         \o FoundCitations(Tail(extracted_citations), chunks)

\* The closing loop of _find_citations_in_chunks: keep the first citation of
\* each text, texts compared in lower case.
RECURSIVE UniqueCitations(_, _)
UniqueCitations(found, seen_texts) ==
    IF found = << >> THEN << >>
    ELSE LET key == LowerText(Head(found).text)
         IN  IF key \in seen_texts
                THEN UniqueCitations(Tail(found), seen_texts)
                ELSE << Head(found) >>
                     \o UniqueCitations(Tail(found), seen_texts \cup {key})

\* _find_citations_in_chunks
FindCitationsInChunks(extracted_citations, chunks) ==
    UniqueCitations(FoundCitations(extracted_citations, chunks), {})

\* "\n\n".join(strings): the strings in order, a separator between neighbours.
RECURSIVE Join(_)
Join(strings) ==
    IF strings = << >> THEN << >>
    ELSE IF Len(strings) = 1 THEN strings[1]
    ELSE strings[1] \o << "\n\n" >> \o Join(Tail(strings))

---------------------------------------------------------------------------
(* SimpleSynthesis.synthesize *)

\* line 47
MaxContextTokens == n_ctx - context_token_buffer

\* Variant of line 62 without the safety margin.
MustCloseBlockWithoutMargin(block_tokens, tokens, block_content) ==
    block_tokens + tokens > MaxContextTokens /\ block_content # << >>

\* Variant of line 62 that leaves the chunk's tokens out of the sum.
MustCloseBlockIgnoringChunk(block_tokens, tokens, block_content) ==
    block_tokens + SafetyMargin > MaxContextTokens /\ block_content # << >>

\* Variant of line 62 that leaves the running count out of the sum.
MustCloseBlockIgnoringBlock(block_tokens, tokens, block_content) ==
    tokens + SafetyMargin > MaxContextTokens /\ block_content # << >>

\* line 62: the current block is closed before the chunk is added.
MustCloseBlock(block_tokens, tokens, block_content) ==
    block_tokens + tokens + SafetyMargin > MaxContextTokens /\ block_content # << >>

\* Variant of lines 79-80 that forgets the open block.
WithLastBlockDropped(blocks, block_content) == blocks

\* lines 79-80: the last block is closed when it holds a chunk.
WithLastBlock(blocks, block_content) ==
    IF block_content # << >> THEN Append(blocks, block_content) ELSE blocks

\* Variant of line 119 that inserts at the front.
AppendAnswerInFront(answers, llm_output) ==
    << ParseAnswerAndCitations(llm_output).clean_answer >> \o answers

\* line 119: the contribution of a block whose generation returned.
AppendAnswer(answers, llm_output) ==
    Append(answers, ParseAnswerAndCitations(llm_output).clean_answer)

\* Variant of line 127 that adds nothing for a failed block.
AppendErrorSkipped(answers) == answers

\* line 127: the contribution of a block whose generation raised.
AppendError(answers) == Append(answers, ErrorPlaceholder)

SynthesisResult(answer, citations) == [answer |-> answer, citations |-> citations]

\* line 40: if not relevant_chunks
NothingToSynthesize(chunks) == chunks = << >>

\* An entry of the history of generate() calls: the block, the outcome and,
\* for a call that returned, the list line 122 got for the block.
Generated(block, llm_output, found_citations_for_block) ==
    [block |-> block, raised |-> FALSE, llm_output |-> llm_output,
     found_citations_for_block |-> found_citations_for_block]
Raised(block) ==
    [block |-> block, raised |-> TRUE, llm_output |-> << >>,
     found_citations_for_block |-> << >>]

\* The state in which synthesize() is called with its list of relevant chunks.
InitSynthesize ==
    /\ RetrieveIdle
    /\ RunIdle
    /\ ChunkIdle
    /\ EngineIdle
    /\ ExtractIdle
    /\ TextChunkerIdle
    /\ \E n \in 0..MaxRelevant :
          /\ relevant_chunks = [k \in 1..n |-> k]
          /\ chunk_tokens \in [1..n -> TokenCounts]
    /\ n_ctx \in NCtxChoices
    /\ context_token_buffer \in BufferChoices
    /\ spc = "start"
    /\ j = 0
    /\ context_blocks = << >>
    /\ current_context_block_content = << >>
    /\ current_context_block_tokens = 0
    /\ b = 0
    /\ all_answers = << >>
    /\ all_citations = << >>
    /\ synthesis_loaded = FALSE
    /\ generation_log = << >>
    /\ synthesis_result = << >>

\* Variables no step of synthesize() writes.
sconfig == << rvars, evars, kvars, lvars, xvars, tvars, chunk_tokens, n_ctx,
              context_token_buffer >>

\* lines 40-43: nothing to synthesize from.
ReturnEmpty ==
    /\ spc = "start"
    /\ NothingToSynthesize(relevant_chunks)
    /\ synthesis_result' = << SynthesisResult(NoRelevantChunksAnswer, << >>) >>
    /\ spc' = "returned"
    /\ UNCHANGED << sconfig, j, context_blocks, current_context_block_content,
                    current_context_block_tokens, b, all_answers, all_citations,
                    synthesis_loaded, generation_log >>

\* line 45: inference_engine.load_model() returns, or raises out of synthesize().
LoadSynthesis ==
    /\ spc = "start"
    /\ ~NothingToSynthesize(relevant_chunks)
    /\ \/ /\ synthesis_loaded' = TRUE
          /\ spc' = "pack"
       \/ /\ synthesis_loaded' = synthesis_loaded
          /\ spc' = "propagated"
    /\ UNCHANGED << sconfig, j, context_blocks, current_context_block_content,
                    current_context_block_tokens, b, all_answers, all_citations,
                    generation_log, synthesis_result >>

\* lines 57-77: one iteration of the packing loop.
PackChunk ==
    /\ spc = "pack"
    /\ j < Len(relevant_chunks)
    /\ LET chunk == relevant_chunks[j + 1]
           tokens == chunk_tokens[chunk]
           close == MustCloseBlock(current_context_block_tokens, tokens,
                                   current_context_block_content)
       IN  /\ context_blocks' =
                 IF close THEN Append(context_blocks, current_context_block_content)
                          ELSE context_blocks
           /\ current_context_block_content' =
                 Append(IF close THEN << >> ELSE current_context_block_content, chunk)
           /\ current_context_block_tokens' =
                 (IF close THEN 0 ELSE current_context_block_tokens) + tokens
    /\ j' = j + 1
    /\ UNCHANGED << sconfig, spc, b, all_answers, all_citations, synthesis_loaded,
                    generation_log, synthesis_result >>

\* lines 79-87: the packing loop is over; the open block is closed.
CloseLastBlock ==
    /\ spc = "pack"
    /\ j = Len(relevant_chunks)
    /\ context_blocks' = WithLastBlock(context_blocks, current_context_block_content)
    /\ spc' = "generate"
    /\ UNCHANGED << sconfig, j, current_context_block_content,
                    current_context_block_tokens, b, all_answers, all_citations,
                    synthesis_loaded, generation_log, synthesis_result >>

\* lines 89-135: one iteration of the generation loop.  generate() returns a
\* text, or raises and the except clause puts the placeholder in its place.
GenerateBlock ==
    /\ spc = "generate"
    /\ b < Len(context_blocks)
    /\ b' = b + 1
    /\ \/ \E llm_output \in Outputs :
            LET found_citations_for_block ==
                    FindCitationsInChunks(
                        ParseAnswerAndCitations(llm_output).extracted_citations,
                        relevant_chunks)
            IN  /\ all_answers' = AppendAnswer(all_answers, llm_output)
                /\ all_citations' = all_citations \o found_citations_for_block
                /\ generation_log' =
                      Append(generation_log,
                             Generated(b + 1, llm_output, found_citations_for_block))
       \/ /\ all_answers' = AppendError(all_answers)
          /\ all_citations' = all_citations
          /\ generation_log' = Append(generation_log, Raised(b + 1))
    /\ UNCHANGED << sconfig, spc, j, context_blocks, current_context_block_content,
                    current_context_block_tokens, synthesis_loaded,
                    synthesis_result >>

\* lines 137-162: the answers are joined and the result is returned.
ReturnResult ==
    /\ spc = "generate"
    /\ b = Len(context_blocks)
    /\ synthesis_result' = << SynthesisResult(Join(all_answers), all_citations) >>
    /\ spc' = "returned"
    /\ UNCHANGED << sconfig, j, context_blocks, current_context_block_content,
                    current_context_block_tokens, b, all_answers, all_citations,
                    synthesis_loaded, generation_log >>

NextSynthesize ==
    \/ ReturnEmpty
    \/ LoadSynthesis
    \/ PackChunk
    \/ CloseLastBlock
    \/ GenerateBlock
    \/ ReturnResult

SpecSynthesize == InitSynthesize /\ [][NextSynthesize]_vars

---------------------------------------------------------------------------
(* RAGEngine.run: chunking, retrieval, synthesis.  The retrieval stage runs *)
(* the steps of retrieve() above; the synthesis stage is the call of        *)
(* SynthesisService.synthesize_answer.                                      *)

\* What rag_query.input_path can point at: nothing, a directory without a
\* supported file, a file or directory with documents, a directory that
\* cannot be listed.
InputPaths == {"missing", "no_documents", "documents", "unreadable"}

\* The state in which run() is called: no stage has started.
InitRun ==
    /\ strategy \in {"window", "best_window"}
    /\ top_k \in 0..MaxTopK
    /\ fallback_inference_engine \in BOOLEAN
    /\ (strategy = "window" => ~fallback_inference_engine)
    /\ total_chunks = 0
    /\ rpc = "idle"
    /\ i = 0
    /\ processed_llm_response = ""
    /\ relevant_chunks = << >>
    /\ retrieved_count = 0
    /\ primary_loaded = FALSE
    /\ fallback_loaded = FALSE
    /\ calls = << >>
    /\ fallback_loads = 0
    /\ final_verdict = << >>
    /\ generation_calls = 0
    /\ error_events = 0
    /\ SynthesizeIdle
    /\ ChunkIdle
    /\ EngineIdle
    /\ ExtractIdle
    /\ TextChunkerIdle
    /\ run_pc = "chunking"
    /\ run_events = << >>
    /\ synthesize_answer_calls = 0
    /\ run_result = ""
    /\ input_path \in InputPaths

\* Variant of lines 68-75 that finds no file only in an empty directory.
NoInputFilesInDirectory(path) == path = "no_documents"

\* chunking_service.py lines 26-29, 66-75: _get_files_from_path returns no
\* file, for a path that does not exist and for a directory without a
\* supported file.
NoInputFiles(path) == path \in {"missing", "no_documents"}

\* Variant of line 77 that never takes the early return.
NothingChunkedNever(n) == FALSE

\* line 77: if not chunks
NothingChunked(n) == n = 0

\* Variant of line 102 that reports the failure as a complete event.
RunFailedAsComplete(events) == Append(events, "complete")

\* line 102: the error event of rag_process
RunFailed(events) == Append(events, "error")

\* Variant of line 86 that never takes the early return.
NothingRelevantNever(chunks) == FALSE

\* line 86: if not relevant_chunks
NothingRelevant(chunks) == chunks = << >>

\* The numbers of chunks chunking_service.process() can return: none when
\* there is no input file (lines 29-32), otherwise what the chunkers made of
\* the files, which again may be nothing.
ProcessedChunkCounts(path) ==
    IF NoInputFiles(path) THEN {0} ELSE 0..MaxChunks

\* lines 76-85: chunking_service.process() raises while it lists the input,
\* or returns its chunks; with no chunk run() returns at once, otherwise
\* retrieve() is called.
ChunkingStage ==
    /\ run_pc = "chunking"
    /\ \/ /\ input_path = "unreadable"
          /\ run_pc' = "except"
          /\ UNCHANGED << total_chunks, final_verdict, rpc, run_events, run_result >>
       \/ /\ input_path # "unreadable"
          /\ \E n \in ProcessedChunkCounts(input_path) :
            IF NothingChunked(n)
               THEN /\ run_events' = Append(run_events, "complete")
                    /\ run_result' = "no_chunks_to_process"
                    /\ run_pc' = "finally"
                    /\ UNCHANGED << total_chunks, final_verdict, rpc >>
               ELSE /\ total_chunks' = n
                    /\ final_verdict' = [c \in 1..n |-> "none"]
                    /\ rpc' = "load"
                    /\ run_pc' = "retrieval"
                    /\ UNCHANGED << run_events, run_result >>
    /\ UNCHANGED << strategy, top_k, fallback_inference_engine, i,
                    processed_llm_response, relevant_chunks, retrieved_count,
                    primary_loaded, fallback_loaded, calls, fallback_loads,
                    generation_calls, error_events, svars, kvars, lvars, xvars, tvars,
                    synthesize_answer_calls, input_path >>

\* line 85: a step of retrieval_service.retrieve().
RetrievalStage ==
    /\ run_pc = "retrieval"
    /\ NextRetrieve

\* line 85: load_model() raised out of retrieve(); the except clause is next.
RetrievalRaised ==
    /\ run_pc = "retrieval"
    /\ rpc = "propagated"
    /\ run_pc' = "except"
    /\ UNCHANGED << rvars, svars, kvars, lvars, xvars, tvars, run_events,
                    synthesize_answer_calls,
                    run_result, input_path >>

\* lines 85-93: retrieve() returned; with no relevant chunk run() returns at
\* once, otherwise the synthesis stage is next.
RetrievalReturned ==
    /\ run_pc = "retrieval"
    /\ rpc = "returned"
    /\ IF NothingRelevant(relevant_chunks)
          THEN /\ run_events' = Append(run_events, "complete")
               /\ run_result' = "no_relevant_chunks"
               /\ run_pc' = "finally"
          ELSE /\ run_pc' = "synthesis"
               /\ UNCHANGED << run_events, run_result >>
    /\ UNCHANGED << rvars, svars, kvars, lvars, xvars, tvars, synthesize_answer_calls,
                    input_path >>

\* lines 94-97: synthesize_answer() is called.  It raises, or it returns the
\* answer as a str, whose attribute .answer line 97 then reads: either way
\* the except clause is next.
SynthesisStage ==
    /\ run_pc = "synthesis"
    /\ synthesize_answer_calls' = synthesize_answer_calls + 1
    /\ run_pc' = "except"
    /\ UNCHANGED << rvars, svars, kvars, lvars, xvars, tvars, run_events, run_result,
                    input_path >>

\* lines 100-104
ExceptRun ==
    /\ run_pc = "except"
    /\ run_events' = RunFailed(run_events)
    /\ run_result' = "rag_process_error"
    /\ run_pc' = "finally"
    /\ UNCHANGED << rvars, svars, kvars, lvars, xvars, tvars, synthesize_answer_calls,
                    input_path >>

\* lines 105-113: every engine that is still loaded is unloaded; run() returns.
FinallyRun ==
    /\ run_pc = "finally"
    /\ primary_loaded' = FALSE
    /\ synthesis_loaded' = FALSE
    /\ fallback_loaded' = FALSE
    /\ run_pc' = "returned"
    /\ UNCHANGED << strategy, total_chunks, top_k, fallback_inference_engine, rpc,
                    i, processed_llm_response, relevant_chunks, retrieved_count,
                    calls, fallback_loads, final_verdict, generation_calls,
                    error_events, chunk_tokens, n_ctx, context_token_buffer, spc,
                    j, context_blocks, current_context_block_content,
                    current_context_block_tokens, b, all_answers, all_citations,
                    generation_log, synthesis_result, run_events,
                    synthesize_answer_calls, run_result, input_path, kvars,
                    lvars, xvars, tvars >>

NextRun ==
    \/ ChunkingStage
    \/ RetrievalStage
    \/ RetrievalRaised
    \/ RetrievalReturned
    \/ SynthesisStage
    \/ ExceptRun
    \/ FinallyRun

SpecRun == InitRun /\ [][NextRun]_vars

\* run() and SimpleSynthesis.synthesize(), each called on its own.
InitRunOrSynthesize == InitRun \/ InitSynthesize

NextRunOrSynthesize == NextRun \/ NextSynthesize

SpecRunOrSynthesize == InitRunOrSynthesize /\ [][NextRunOrSynthesize]_vars

---------------------------------------------------------------------------
(* Properties of the synthesis batcher. *)

\* The summed token count of a block.
RECURSIVE BlockTokens(_)
BlockTokens(block) ==
    IF block = << >> THEN 0
    ELSE chunk_tokens[Head(block)] + BlockTokens(Tail(block))

\* The blocks in the order of their chunks, concatenated.
RECURSIVE Flatten(_)
Flatten(blocks) ==
    IF blocks = << >> THEN << >> ELSE Head(blocks) \o Flatten(Tail(blocks))

\* The blocks built so far: the closed ones and, while packing, the open one.
BlocksSoFar ==
    context_blocks \o
        (IF spc = "pack" /\ current_context_block_content # << >>
            THEN << current_context_block_content >> ELSE << >>)

\* The packing loop and the closing of the last block are over.
Packed == spc \in {"generate", "returned"} /\ relevant_chunks # << >>

Oversized(chunk) == chunk_tokens[chunk] > MaxContextTokens

\* What a generate() call must contribute to the answer.
Contribution(entry) ==
    IF entry.raised THEN ErrorPlaceholder
    ELSE ParseAnswerAndCitations(entry.llm_output).clean_answer

\* The citations the calls of a log yield, call after call.
RECURSIVE CitationsOfLog(_)
CitationsOfLog(log) ==
    IF log = << >> THEN << >>
    ELSE (IF Head(log).raised THEN << >>
          ELSE FindCitationsInChunks(
                   ParseAnswerAndCitations(Head(log).llm_output).extracted_citations,
                   relevant_chunks))
         \o CitationsOfLog(Tail(log))

\* C6: packing bound.  Every context block has a summed token count of at most
\* n_ctx - context_token_buffer, unless it consists of a single chunk whose own
\* token count exceeds that budget.
PackingBound ==
    \A k \in DOMAIN BlocksSoFar :
        LET block == BlocksSoFar[k]
        IN  \/ BlockTokens(block) <= MaxContextTokens
            \/ Len(block) = 1 /\ Oversized(block[1])

\* Witness of C6: the packing is over and produced a block of several chunks
\* as well as a block made of one oversized chunk.
PackingBoundWitness ==
    /\ spc = "generate"
    /\ \E k \in DOMAIN context_blocks : Len(context_blocks[k]) >= 2
    /\ \E k \in DOMAIN context_blocks :
          /\ Len(context_blocks[k]) = 1
          /\ Oversized(context_blocks[k][1])

\* C7: an oversized chunk is never dropped and never shares a block.  Each
\* chunk taken by the packing loop whose token count exceeds the budget is in
\* exactly one block, and that block holds nothing else.
OversizedChunkAlone ==
    \A pos \in 1..j :
        LET chunk == relevant_chunks[pos]
        IN  Oversized(chunk) =>
                /\ \E k \in DOMAIN BlocksSoFar : BlocksSoFar[k] = << chunk >>
                /\ \A k \in DOMAIN BlocksSoFar :
                      chunk \in Range(BlocksSoFar[k]) => BlocksSoFar[k] = << chunk >>
                /\ Cardinality({k \in DOMAIN BlocksSoFar :
                                    chunk \in Range(BlocksSoFar[k])}) = 1

\* Witness of C7: an oversized chunk between two chunks that fit the budget,
\* after packing.
OversizedChunkAloneWitness ==
    /\ spc = "generate"
    /\ Len(relevant_chunks) >= 3
    /\ Oversized(relevant_chunks[2])
    /\ ~Oversized(relevant_chunks[1])
    /\ ~Oversized(relevant_chunks[3])
    /\ chunk_tokens[relevant_chunks[1]] + SafetyMargin <= MaxContextTokens
    /\ context_blocks[2] = << relevant_chunks[2] >>

\* C8: packing preserves the input.  The blocks, concatenated in order, are
\* the chunks taken so far in input order, and no block is empty; after
\* packing they are the whole relevant-chunk list.
PackingPartition ==
    /\ Flatten(BlocksSoFar) = SubSeq(relevant_chunks, 1, j)
    /\ \A k \in DOMAIN context_blocks : context_blocks[k] # << >>
    /\ (Packed => Flatten(context_blocks) = relevant_chunks)

\* Witness of C8: three chunks were packed into two blocks.
PackingPartitionWitness ==
    /\ spc = "generate"
    /\ Len(relevant_chunks) = 3
    /\ Len(context_blocks) = 2
    /\ Len(context_blocks[1]) = 2

\* C9: per-block generation.  The k-th generate() call is the call for block k,
\* each processed block has exactly one contribution, at position k, and the
\* returned answer is the contributions of all blocks joined in block order.
PerBlockGeneration ==
    /\ Len(generation_log) = b
    /\ Len(all_answers) = b
    /\ \A k \in DOMAIN generation_log :
          /\ generation_log[k].block = k
          /\ all_answers[k] = Contribution(generation_log[k])
    /\ (spc = "returned" /\ relevant_chunks # << >> =>
          /\ b = Len(context_blocks)
          /\ synthesis_result[1].answer =
                Join([k \in 1..b |-> Contribution(generation_log[k])]))

\* Witness of C9: an answer made of three different contributions was returned.
PerBlockGenerationWitness ==
    /\ spc = "returned"
    /\ Len(context_blocks) = 3
    /\ all_answers[1] = << "p" >>
    /\ all_answers[2] = << "r" >>
    /\ all_answers[3] = << >>
    /\ synthesis_result[1].answer = << "p", "\n\n", "r", "\n\n" >>

\* C10: block failure is local.  A block whose generation raised has the error
\* placeholder at its position of the answer, the citations of the other
\* blocks are kept, the exception never leaves synthesize(), and every block
\* has been generated when the result is returned.
BlockFailureIsLocal ==
    /\ \A k \in DOMAIN generation_log :
          generation_log[k].raised =>
              /\ k <= Len(all_answers)
              /\ all_answers[k] = ErrorPlaceholder
    /\ all_citations = CitationsOfLog(generation_log)
    /\ (spc = "propagated" => generation_log = << >>)
    /\ (spc = "returned" /\ relevant_chunks # << >> =>
          /\ Len(generation_log) = Len(context_blocks)
          /\ synthesis_result # << >>
          /\ synthesis_result[1].citations = CitationsOfLog(generation_log))

\* Witness of C10: the second of three blocks failed; the result carries the
\* placeholder between the other two contributions and a citation from the
\* first and from the third block.
BlockFailureIsLocalWitness ==
    /\ spc = "returned"
    /\ Len(generation_log) = 3
    /\ ~generation_log[1].raised
    /\ generation_log[2].raised
    /\ ~generation_log[3].raised
    /\ all_answers[2] = ErrorPlaceholder
    /\ Len(synthesis_result[1].citations) >= 2
    /\ CitationsOfLog(<< generation_log[1] >>) # << >>
    /\ CitationsOfLog(<< generation_log[3] >>) # << >>

---------------------------------------------------------------------------
(* Properties of an empty relevant-chunk list. *)

\* C11: empty synthesis input invokes nothing.  When synthesize() was called
\* with an empty relevant-chunk list it makes no generation call and does not
\* load the model; when retrieve() returned an empty list to run(), run()
\* never calls the synthesis stage.
EmptyInputInvokesNothing ==
    /\ (spc # "idle" /\ relevant_chunks = << >> =>
          /\ spc \in {"start", "returned"}
          /\ generation_log = << >>
          /\ ~synthesis_loaded)
    /\ (run_pc # "idle" /\ rpc = "returned" /\ relevant_chunks = << >> =>
          /\ run_pc \in {"retrieval", "finally", "returned"}
          /\ synthesize_answer_calls = 0
          /\ spc = "idle"
          /\ ~synthesis_loaded)

\* Witness of C11: synthesize() returned for an empty list, with no generation
\* call made and the model not loaded.
EmptyInputInvokesNothingWitness ==
    /\ spc = "returned"
    /\ relevant_chunks = << >>
    /\ synthesis_result # << >>
    /\ generation_log = << >>
    /\ ~synthesis_loaded

\* C12: empty synthesis result value.  With zero relevant chunks the returned
\* SynthesisResult has the empty string as its answer and no citations, from
\* synthesize() as well as from run().
EmptyResultValue ==
    /\ (spc = "returned" /\ relevant_chunks = << >> =>
          /\ synthesis_result[1].answer = << >>
          /\ synthesis_result[1].citations = << >>)
    /\ (run_pc = "returned" /\ rpc = "returned" /\ relevant_chunks = << >> =>
          run_result = "")

---------------------------------------------------------------------------
(* Properties of the citations. *)

\* The citations synthesize() holds: those collected so far and those of the
\* returned result.
HeldCitations ==
    all_citations \o
        (IF synthesis_result = << >> THEN << >> ELSE synthesis_result[1].citations)

\* A citation whose text is a single sentence that no generated quotation
\* consists of: it comes from the sentence-level search.
IsSentenceLevel(citation) == citation.text = << "s2" >>

\* C13: citation integrity.  Every citation names a chunk of the relevant-
\* chunk list, its text is a substring of that chunk's content when case is
\* ignored, and its offsets are those of that chunk, for whole quotations and
\* for sentence-level matches.
CitationIntegrity ==
    \A k \in DOMAIN HeldCitations :
        LET citation == HeldCitations[k]
            c == citation.chunk_id
        IN  /\ c \in Range(relevant_chunks)
            /\ IsSubstring(LowerText(citation.text), LowerText(ContentOf(c)))
            /\ citation.start_offset = 100 * c
            /\ citation.end_offset = 100 * c + Len(ContentOf(c))

\* Witness of C13: the returned result holds a citation whose text differs in
\* case from the chunk's content and a citation from the sentence-level search,
\* neither bound to the first chunk.
CitationIntegrityWitness ==
    /\ spc = "returned"
    /\ synthesis_result # << >>
    /\ \E k \in DOMAIN synthesis_result[1].citations :
          LET citation == synthesis_result[1].citations[k]
          IN  /\ citation.text = << "q1" >>
              /\ citation.chunk_id = 3
              /\ ~IsSubstring(citation.text, ContentOf(3))
    /\ \E k \in DOMAIN synthesis_result[1].citations :
          /\ IsSentenceLevel(synthesis_result[1].citations[k])
          /\ synthesis_result[1].citations[k].chunk_id = 1

\* C14: citation deduplication.  The citations of the returned result hold no
\* two entries whose texts are equal when case is ignored, and they are the
\* citations of all blocks in first-seen order with later repetitions left
\* out, also when two different blocks produce the same quotation.
CitationDeduplication ==
    spc = "returned" /\ synthesis_result # << >> =>
        LET citations == synthesis_result[1].citations
        IN  /\ \A k1, k2 \in DOMAIN citations :
                  k1 # k2 =>
                      LowerText(citations[k1].text) # LowerText(citations[k2].text)
            /\ citations = UniqueCitations(CitationsOfLog(generation_log), {})

\* The quotations extracted from the output of a generate() call.
CandidatesOf(entry) == ParseAnswerAndCitations(entry.llm_output).extracted_citations

\* The positions of the sentences of a quotation that some chunk contains.
MatchingSentences(candidate) ==
    {pos \in DOMAIN candidate : Matches(<< candidate[pos] >>, relevant_chunks) # {}}

\* A call whose output holds one quotation, which no chunk contains whole.
SingleFuzzyCandidate(entry) ==
    /\ ~entry.raised
    /\ Len(CandidatesOf(entry)) = 1
    /\ Matches(CandidatesOf(entry)[1], relevant_chunks) = {}

\* C15 as stated: the sentence-level search yields at most one citation per
\* quotation.  A block has no more citations than quotations, and a quotation
\* without a whole match yields the citation of its first matching sentence
\* and nothing else, or nothing when no sentence matches.
FuzzyAtMostOnePerCandidate ==
    \A k \in DOMAIN generation_log :
        LET entry == generation_log[k]
            found == entry.found_citations_for_block
        IN  /\ Len(found) <= Len(CandidatesOf(entry))
            /\ SingleFuzzyCandidate(entry) =>
                  LET candidate == CandidatesOf(entry)[1]
                      matching == MatchingSentences(candidate)
                  IN  IF matching = {} THEN found = << >>
                      ELSE /\ Len(found) = 1
                           /\ found[1].text = << candidate[Min(matching)] >>

\* C15 as amended: the sentence-level search yields one citation per matching
\* sentence.  For a quotation without a whole match, every sentence that some
\* chunk contains is cited, in sentence order and bound to the first chunk
\* that contains it, a sentence that matches nothing is left out, and a
\* quotation none of whose sentences match yields nothing while the block's
\* generation still counts as returned.
FuzzyOnePerSentence ==
    \A k \in DOMAIN generation_log :
        LET entry == generation_log[k]
            found == entry.found_citations_for_block
        IN  SingleFuzzyCandidate(entry) =>
               LET candidate == CandidatesOf(entry)[1]
                   matching == MatchingSentences(candidate)
                   SentenceAt(n) == CHOOSE pos \in matching : found[n].text = << candidate[pos] >>
               IN  /\ Len(found) <= Len(candidate)
                   /\ \A n \in DOMAIN found :
                         /\ \E pos \in matching : found[n].text = << candidate[pos] >>
                         /\ found[n].chunk_id =
                               relevant_chunks[Min(Matches(found[n].text, relevant_chunks))]
                   /\ \A pos \in matching :
                         \E n \in DOMAIN found :
                             LowerText(found[n].text) = LowerText(<< candidate[pos] >>)
                   /\ \A n1, n2 \in DOMAIN found :
                         n1 < n2 => SentenceAt(n1) < SentenceAt(n2)
                   /\ k <= Len(all_answers)
                   /\ all_answers[k] # ErrorPlaceholder

\* Witness of C15: a call returned a quotation of three sentences that no
\* chunk contains whole; two of its sentences were cited, from different
\* chunks, and the third, which no chunk contains, was left out.
FuzzyOnePerSentenceWitness ==
    /\ spc = "returned"
    /\ \E k \in DOMAIN generation_log :
          /\ SingleFuzzyCandidate(generation_log[k])
          /\ Len(CandidatesOf(generation_log[k])[1]) = 3
          /\ Cardinality(MatchingSentences(CandidatesOf(generation_log[k])[1])) = 2
          /\ Len(generation_log[k].found_citations_for_block) = 2
          /\ generation_log[k].found_citations_for_block[1].chunk_id
                # generation_log[k].found_citations_for_block[2].chunk_id

\* C16: exact citation resolution, scope and tie-break.  A quotation in the
\* output of any block that some chunk of the whole relevant-chunk list
\* contains is cited, whether or not that chunk is in the block, and the
\* citation is bound to the first such chunk in relevant-chunk order.
ExactResolution ==
    \A k \in DOMAIN generation_log :
        LET entry == generation_log[k]
            found == entry.found_citations_for_block
        IN  \A c \in DOMAIN CandidatesOf(entry) :
                LET candidate == CandidatesOf(entry)[c]
                    containing == Matches(candidate, relevant_chunks)
                IN  containing # {} =>
                       /\ \E n \in DOMAIN found :
                             LowerText(found[n].text) = LowerText(candidate)
                       /\ \A n \in DOMAIN found :
                             LowerText(found[n].text) = LowerText(candidate) =>
                                \E m \in containing :
                                    /\ found[n].chunk_id = relevant_chunks[m]
                                    /\ \A m2 \in containing : m <= m2

\* Witness of C16: the call for the first block cited a quotation from a chunk
\* of the third block, and a quotation that two chunks contain was bound to
\* the earlier of the two.
ExactResolutionWitness ==
    /\ spc = "returned"
    /\ Len(context_blocks) = 3
    /\ generation_log[1].found_citations_for_block # << >>
    /\ generation_log[1].found_citations_for_block[1].text = << "q1" >>
    /\ generation_log[1].found_citations_for_block[1].chunk_id = 3
    /\ 3 \in Range(context_blocks[3])
    /\ \E k \in DOMAIN generation_log :
          \E n \in DOMAIN generation_log[k].found_citations_for_block :
              LET citation == generation_log[k].found_citations_for_block[n]
              IN  /\ citation.text = << "s3" >>
                  /\ citation.chunk_id = 2
                  /\ Cardinality(Matches(citation.text, relevant_chunks)) = 2
                  /\ << "s3" >> \in Range(CandidatesOf(generation_log[k]))

---------------------------------------------------------------------------
(* FB2Chunker: the extracted text is a sequence of characters, a chunk is   *)
(* the tuple (content, start, end) of the split methods.                    *)

MaxTextLen == 4       \* longest extracted text, in characters

\* A letter, a sentence terminator, and the two kinds of whitespace.
Characters == {"a", ".", " ", "\n"}

\* \s of the regular expressions and of str.strip()
IsSpace(ch) == ch \in {" ", "\n"}

\* What _extract_text_from_element can return and chunk_file goes on with
\* (lines 61-63, 132): text that is not blank and is stripped.
FullTexts ==
    {t \in UNION {[1..n -> Characters] : n \in 1..MaxTextLen} :
        ~IsSpace(t[1]) /\ ~IsSpace(t[Len(t)])}

\* The text of the sentence scenario: three one-letter sentences.
SentenceScenarioText == << "A", ".", " ", "B", ".", " ", "C", "." >>

\* A sentence of three characters between two sentences of one character.
OversizedSentenceText == << ".", " ", ".", ".", ".", " ", "." >>

\* Longer texts that chunk_file() is also tried on.
ScenarioTexts == {SentenceScenarioText, OversizedSentenceText}

\* The policies tried; an overlap_size may reach or exceed the chunk_size.
ChunkSizes == {1, 2, 3}
OverlapSizes == {0, 1, 2, 3}
MinChunkSizes == {0, 2, 4}

\* (chunk_size, overlap_size, min_chunk_size): the policies above and the
\* one of the sentence scenario.
Policies == (ChunkSizes \X OverlapSizes \X MinChunkSizes) \cup {<< 5, 0, 0 >>}

\* chunk_by: the three split methods of lines 66-71.
ChunkByModes == {"characters", "sentences", "paragraphs"}

\* The while loop of _chunk_by_characters is cut after this many chunks; a
\* loop that advances needs fewer.
IterationCap == 2 * MaxTextLen + 2

\* An index of a slice, as Python normalises it for a string of length n.
SliceIndex(x, n) ==
    IF x < 0 THEN (IF x + n < 0 THEN 0 ELSE x + n)
    ELSE IF x > n THEN n ELSE x

\* s[from:to]
Slice(s, from, to) ==
    LET lo == SliceIndex(from, Len(s))
        hi == SliceIndex(to, Len(s))
    IN  IF lo >= hi THEN << >> ELSE SubSeq(s, lo + 1, hi)

\* s.strip()
Strip(s) ==
    LET solid == {k \in DOMAIN s : ~IsSpace(s[k])}
    IN  IF solid = {} THEN << >>
        ELSE SubSeq(s, CHOOSE k \in solid : \A m \in solid : k <= m,
                       CHOOSE k \in solid : \A m \in solid : k >= m)

\* One tuple of a split method's result.
RawChunk(content, start, end) == [content |-> content, start |-> start, end |-> end]

\* The state in which chunk_file() has extracted the text (line 65).
InitChunk ==
    /\ RetrieveIdle
    /\ relevant_chunks = << >>
    /\ SynthesizeIdle
    /\ RunIdle
    /\ EngineIdle
    /\ ExtractIdle
    /\ TextChunkerIdle
    /\ full_text_content \in FullTexts \cup ScenarioTexts
    /\ chunk_by \in ChunkByModes
    /\ \E policy \in Policies :
           /\ chunk_size = policy[1]
           /\ overlap_size = policy[2]
           /\ min_chunk_size = policy[3]
    /\ cpc = "split"
    /\ current_offset = 0
    /\ raw_chunks = << >>
    /\ processed_chunks = << >>
    /\ policy_overlap_size = overlap_size

\* Variables no step of chunk_file() writes.
kconfig == << rvars, svars, evars, lvars, xvars, tvars, full_text_content, chunk_by,
              chunk_size, min_chunk_size, policy_overlap_size >>

\* lines 66-67: _chunk_by_characters is called.
CallChunkByCharacters ==
    /\ cpc = "split"
    /\ chunk_by = "characters"
    /\ cpc' = "characters"
    /\ UNCHANGED << kconfig, overlap_size, current_offset, raw_chunks,
                    processed_chunks >>

\* Variant of line 151 that advances by chunk_size.
NextOffsetWithoutOverlap(offset) == offset + chunk_size

\* line 151
NextOffset(offset) == offset + chunk_size - overlap_size

\* Variant of line 152 with >= for >.
OverlapTooLargeOrEqual == overlap_size >= chunk_size

\* line 152
OverlapTooLarge == overlap_size > chunk_size

\* lines 147-154: one iteration of the while loop.
ChunkByCharactersStep ==
    /\ cpc = "characters"
    /\ current_offset < Len(full_text_content)
    /\ Len(raw_chunks) < IterationCap
    /\ LET end_offset ==
               IF current_offset + chunk_size < Len(full_text_content)
                  THEN current_offset + chunk_size ELSE Len(full_text_content)
           chunk_content == Slice(full_text_content, current_offset, end_offset)
       IN  raw_chunks' =
               Append(raw_chunks, RawChunk(chunk_content, current_offset, end_offset))
    /\ current_offset' = NextOffset(current_offset)
    /\ overlap_size' = IF OverlapTooLarge THEN chunk_size \div 2 ELSE overlap_size
    /\ UNCHANGED << kconfig, cpc, processed_chunks >>

\* lines 147, 155: the loop condition fails, the tuples are returned.
ChunkByCharactersReturn ==
    /\ cpc = "characters"
    /\ ~(current_offset < Len(full_text_content))
    /\ cpc' = "post"
    /\ UNCHANGED << kconfig, overlap_size, current_offset, raw_chunks,
                    processed_chunks >>

\* [.!?] of the sentence regular expression and of line 172
IsTerminator(ch) == ch \in {".", "!", "?"}

\* The smaller and the larger of two integers (min() and max() of Python).
Smaller(x, y) == IF x < y THEN x ELSE y
Larger(x, y) == IF x > y THEN x ELSE y

\* The positions where (?<=[.!?])\s+ matches: a whitespace character that
\* follows a terminator.  The match runs over all the whitespace there.
SentenceBreaks(text) ==
    {p \in 2..Len(text) : IsTerminator(text[p - 1]) /\ IsSpace(text[p])}

\* The first position at or after p that holds no whitespace, Len(text) + 1
\* when there is none.
WhitespaceEnd(text, p) ==
    LET solid == {q \in p..Len(text) : ~IsSpace(text[q])}
    IN  IF solid = {} THEN Len(text) + 1 ELSE Min(solid)

\* line 164: re.split(r'(?<=[.!?])\s+', text), the pieces from position
\* from on.
RECURSIVE SplitSentences(_, _)
SplitSentences(text, from) ==
    LET breaks == {p \in SentenceBreaks(text) : p >= from}
    IN  IF breaks = {} THEN << SubSeq(text, from, Len(text)) >>
        ELSE << SubSeq(text, from, Min(breaks) - 1) >>
                 \o SplitSentences(text, WhitespaceEnd(text, Min(breaks)))

\* line 172
SentenceLen(sentence) ==
    Len(sentence)
      + (IF sentence # << >> /\ IsTerminator(sentence[Len(sentence)]) THEN 1 ELSE 2)

\* Variant of line 175 that looks at the buffer only.
MustFlushWhenBufferFull(content, sentence) ==
    Len(content) > chunk_size /\ content # << >>

\* line 175: the sentence does not fit into the buffer, which is not empty.
MustFlush(content, sentence) ==
    Len(content) + SentenceLen(sentence) > chunk_size /\ content # << >>

\* lines 171-190: the loop over the sentences from position k on and the
\* final flush; results, offset (current_offset), content
\* (current_chunk_content) and start (current_chunk_start_offset) are the
\* loop's variables.
RECURSIVE PackSentences(_, _, _, _, _, _)
PackSentences(sentences, k, results, offset, content, start) ==
    IF k > Len(sentences)
       THEN IF content # << >>
               THEN Append(results, RawChunk(Strip(content), start, offset))
               ELSE results
    ELSE LET sentence == sentences[k]
             flush == MustFlush(content, sentence)
             flushed == IF flush
                           THEN Append(results, RawChunk(Strip(content), start, offset))
                           ELSE results
             kept == IF flush THEN << >> ELSE content
             \* line 179, then lines 181-182
             overlapped == IF flush THEN Larger(0, offset - overlap_size) ELSE start
             new_start == IF kept = << >> THEN offset ELSE overlapped
         IN  PackSentences(sentences, k + 1, flushed,
                           offset + SentenceLen(sentence),
                           kept \o sentence \o << " " >>, new_start)

\* _chunk_by_sentences
ChunkBySentences(text) ==
    PackSentences(SplitSentences(text, 1), 1, << >>, 0, << >>, 0)

\* lines 68-69: _chunk_by_sentences is called and returns.
CallChunkBySentences ==
    /\ cpc = "split"
    /\ chunk_by = "sentences"
    /\ raw_chunks' = ChunkBySentences(full_text_content)
    /\ cpc' = "post"
    /\ UNCHANGED << kconfig, overlap_size, current_offset, processed_chunks >>

\* The maximal runs of whitespace of the text that hold two or more line
\* breaks, as pairs (first line break, last line break): what
\* \n\s*\n+ matches.
ParagraphBreaks(text) ==
    {<< p, q >> \in (DOMAIN text) \X (DOMAIN text) :
        /\ p < q
        /\ text[p] = "\n" /\ text[q] = "\n"
        /\ \A m \in p..q : IsSpace(text[m])
        /\ \A m \in 1..(p - 1) :
               (\A n \in m..p : IsSpace(text[n])) => text[m] # "\n"
        /\ \A m \in (q + 1)..Len(text) :
               (\A n \in q..m : IsSpace(text[n])) => text[m] # "\n"}

\* line 197: re.split(r'\n\s*\n+', text), the pieces from position from on.
RECURSIVE SplitParagraphs(_, _)
SplitParagraphs(text, from) ==
    LET breaks == {br \in ParagraphBreaks(text) : br[1] >= from}
        first == CHOOSE br \in breaks : \A other \in breaks : br[1] <= other[1]
    IN  IF breaks = {} THEN << SubSeq(text, from, Len(text)) >>
        ELSE << SubSeq(text, from, first[1] - 1) >>
                 \o SplitParagraphs(text, first[2] + 1)

\* text.find(sub, from), with 0-based positions and -1 for no occurrence
Find(text, sub, from) ==
    LET found == {p \in from..(Len(text) - Len(sub)) :
                     SubSeq(text, p + 1, p + Len(sub)) = sub}
    IN  IF found = {} THEN 0 - 1 ELSE Min(found)

\* lines 147-155 for a text of its own (line 219): the iterations from
\* offset on, with the overlap_size the call finds in the configuration.
\* The result holds the tuples and the overlap_size the call leaves.
RECURSIVE CharactersOf(_, _, _, _)
CharactersOf(text, offset, overlap, results) ==
    IF ~(offset < Len(text))
       THEN [results |-> results, overlap_size |-> overlap]
    ELSE LET end_offset == Smaller(offset + chunk_size, Len(text))
         IN  CharactersOf(text, offset + chunk_size - overlap,
                          IF overlap > chunk_size THEN chunk_size \div 2 ELSE overlap,
                          Append(results,
                                 RawChunk(Slice(text, offset, end_offset),
                                          offset, end_offset)))

\* The tuples of a paragraph moved to the paragraph's place (lines 220-221).
Shifted(sub_chunks, para_start_offset) ==
    [k \in DOMAIN sub_chunks |->
        RawChunk(sub_chunks[k].content,
                 para_start_offset + sub_chunks[k].start,
                 para_start_offset + sub_chunks[k].end)]

\* lines 202-225: the loop over the paragraphs from position k on.  The
\* result holds the tuples and the overlap_size the loop leaves.
RECURSIVE ScanParagraphs(_, _, _, _, _)
ScanParagraphs(text, paragraphs, k, offset, acc) ==
    IF k > Len(paragraphs) THEN acc
    ELSE LET para_stripped == Strip(paragraphs[k])
             found == Find(text, para_stripped, offset)
             para_start_offset ==
                 IF found = 0 - 1 THEN Find(text, para_stripped, 0) ELSE found
             para_end_offset == para_start_offset + Len(para_stripped)
             sub == CharactersOf(para_stripped, 0, acc.overlap_size, << >>)
         IN  IF para_stripped = << >>
                THEN ScanParagraphs(text, paragraphs, k + 1, offset, acc)
             ELSE IF Len(para_stripped) > chunk_size
                THEN ScanParagraphs(text, paragraphs, k + 1, para_end_offset,
                         [results |-> acc.results
                                        \o Shifted(sub.results, para_start_offset),
                          overlap_size |-> sub.overlap_size])
             ELSE ScanParagraphs(text, paragraphs, k + 1, para_end_offset,
                      [acc EXCEPT !.results =
                          Append(@, RawChunk(para_stripped, para_start_offset,
                                             para_end_offset))])

\* lines 234-252: the packing loop over the tuples from position k on and
\* the final flush; overlap is the overlap_size the first loop left.
RECURSIVE PackParagraphs(_, _, _, _, _, _)
PackParagraphs(results, k, final_chunks, content, start, overlap) ==
    IF k > Len(results)
       THEN IF content # << >>
               THEN Append(final_chunks,
                           RawChunk(Strip(content), start, results[Len(results)].end))
               ELSE final_chunks
    ELSE LET item == results[k]
             \* lines 235-236
             start1 == IF content = << >> THEN item.start ELSE start
             flush == /\ Len(content) + Len(item.content) + 1 > chunk_size
                      /\ content # << >>
             flushed == IF flush
                           THEN Append(final_chunks,
                                       RawChunk(Strip(content), start1, item.end))
                           ELSE final_chunks
             kept == IF flush THEN << >> ELSE content
             \* line 244, then lines 246-247
             overlapped == IF flush THEN Larger(0, item.start - overlap) ELSE start1
             new_start == IF kept = << >> THEN item.start ELSE overlapped
         IN  PackParagraphs(results, k + 1, flushed,
                            kept \o item.content \o << "\n", "\n" >>,
                            new_start, overlap)

\* The paragraphs of line 197
Paragraphs(text) == SplitParagraphs(Strip(text), 1)

\* A paragraph is handed to _chunk_by_characters (line 219) while
\* overlap_size equals chunk_size: its loop does not advance.
ParagraphLoopsForever(text) ==
    /\ overlap_size = chunk_size
    /\ \E k \in DOMAIN Paragraphs(text) :
           Len(Strip(Paragraphs(text)[k])) > chunk_size

\* _chunk_by_paragraphs: the tuples it returns and the overlap_size it leaves
ChunkByParagraphs(text) ==
    LET scanned == ScanParagraphs(text, Paragraphs(text), 1, 0,
                       [results |-> << >>, overlap_size |-> overlap_size])
    IN  [results |-> IF scanned.results = << >> THEN << >>
                     ELSE PackParagraphs(scanned.results, 1, << >>, << >>, 0,
                                         scanned.overlap_size),
         overlap_size |-> scanned.overlap_size]

\* lines 70-71: _chunk_by_paragraphs is called and returns.
CallChunkByParagraphs ==
    /\ cpc = "split"
    /\ chunk_by = "paragraphs"
    /\ ~ParagraphLoopsForever(full_text_content)
    /\ raw_chunks' = ChunkByParagraphs(full_text_content).results
    /\ overlap_size' = ChunkByParagraphs(full_text_content).overlap_size
    /\ cpc' = "post"
    /\ UNCHANGED << kconfig, current_offset, processed_chunks >>

\* lines 70-71, 219: _chunk_by_paragraphs is called and the while loop of
\* _chunk_by_characters never ends.
CallChunkByParagraphsLoops ==
    /\ cpc = "split"
    /\ chunk_by = "paragraphs"
    /\ ParagraphLoopsForever(full_text_content)
    /\ cpc' = "looping"
    /\ UNCHANGED << kconfig, overlap_size, current_offset, raw_chunks,
                    processed_chunks >>

\* Variant of line 271 that merges a small chunk only into an open buffer.
TooSmallToStandOnlyInBuffer(content, combined, k, n) ==
    Len(content) < min_chunk_size /\ combined # << >>

\* line 271: the chunk is small and there is something to merge it with.
TooSmallToStand(content, combined, k, n) ==
    Len(content) < min_chunk_size /\ (combined # << >> \/ k < n)

\* lines 268-285: the loop over the raw chunks from position k on; temp_chunks,
\* current_combined_chunk and current_start_offset are the loop's variables.
\* The result holds the three of them after the loop.
RECURSIVE MergeSmallChunks(_, _, _, _, _)
MergeSmallChunks(raw, k, temp_chunks, current_combined_chunk, current_start_offset) ==
    IF k > Len(raw)
       THEN [temp_chunks |-> temp_chunks,
             current_combined_chunk |-> current_combined_chunk,
             current_start_offset |-> current_start_offset]
    ELSE LET content == raw[k].content
             start == raw[k].start
             end == raw[k].end
         IN  IF TooSmallToStand(content, current_combined_chunk, k, Len(raw))
                THEN MergeSmallChunks(raw, k + 1, temp_chunks,
                         current_combined_chunk \o content \o << " " >>,
                         IF current_combined_chunk = << >>
                            THEN start ELSE current_start_offset)
             ELSE IF current_combined_chunk # << >>
                THEN LET combined == current_combined_chunk \o content \o << " " >>
                         combined_end_offset ==
                             IF content # << >> THEN end
                             ELSE start + Len(Strip(combined))
                     IN  MergeSmallChunks(raw, k + 1,
                             Append(temp_chunks,
                                    RawChunk(Strip(combined), current_start_offset,
                                             combined_end_offset)),
                             << >>, start)
             ELSE MergeSmallChunks(raw, k + 1, Append(temp_chunks, raw[k]),
                                   << >>, start)

\* lines 287-300: what is left in the buffer after the loop joins the last
\* chunk, or becomes a chunk of its own.
FlushLastCombined(merged) ==
    LET temp_chunks == merged.temp_chunks
        stripped == Strip(merged.current_combined_chunk)
        own == RawChunk(stripped, merged.current_start_offset,
                        merged.current_start_offset + Len(stripped))
    IN  IF merged.current_combined_chunk = << >> THEN temp_chunks
        ELSE IF temp_chunks # << >>
           THEN LET last == temp_chunks[Len(temp_chunks)]
                IN  IF /\ Len(stripped) < min_chunk_size
                       /\ Len(last.content) + Len(stripped) + 1 <= chunk_size
                       THEN [temp_chunks EXCEPT ![Len(temp_chunks)] =
                                RawChunk(last.content \o << " " >> \o stripped,
                                         last.start, last.end + Len(stripped))]
                       ELSE Append(temp_chunks, own)
        ELSE Append(temp_chunks, own)

\* Variant of line 309 that keeps the empty chunks too.
KeptAfterAll(chunk) == TRUE

\* lines 305-310: a chunk is kept when it reaches min_chunk_size, and also
\* when it does not but is not empty.
Kept(chunk) ==
    Len(chunk.content) >= min_chunk_size \/ Len(chunk.content) > 0

\* _apply_overlap_and_min_size
ApplyOverlapAndMinSize(raw) ==
    IF raw = << >> THEN << >>
    ELSE SelectSeq(FlushLastCombined(
                       MergeSmallChunks(raw, 1, << >>, << >>, raw[1].start)),
                   Kept)

\* lines 77-104: the raw chunks are post-processed and chunk_file() returns.
PostProcess ==
    /\ cpc = "post"
    /\ processed_chunks' = ApplyOverlapAndMinSize(raw_chunks)
    /\ cpc' = "done"
    /\ UNCHANGED << kconfig, overlap_size, current_offset, raw_chunks >>

NextChunkFile ==
    \/ CallChunkByCharacters
    \/ CallChunkBySentences
    \/ CallChunkByParagraphs
    \/ CallChunkByParagraphsLoops
    \/ ChunkByCharactersStep
    \/ ChunkByCharactersReturn
    \/ PostProcess

SpecChunk == InitChunk /\ [][NextChunkFile]_vars

---------------------------------------------------------------------------
(* Properties of the fixed-width split. *)

\* chunk_file() returned the chunks of a fixed-width split whose policy has
\* 0 <= overlap < target_size.
FixedWidthDone ==
    /\ cpc = "done"
    /\ chunk_by = "characters"
    /\ policy_overlap_size < chunk_size

\* The chunk's content is the text between its offsets.
IsTextSlice(chunk) ==
    /\ 0 <= chunk.start
    /\ chunk.start <= chunk.end
    /\ chunk.end <= Len(full_text_content)
    /\ chunk.content = SubSeq(full_text_content, chunk.start + 1, chunk.end)

\* Every position of the text lies in the interval of some chunk.
CoversText(chunks) ==
    \A pos \in 0..(Len(full_text_content) - 1) :
        \E k \in DOMAIN chunks : chunks[k].start <= pos /\ pos < chunks[k].end

\* C17: fixed-width round trip.  For a policy with 0 <= overlap < target_size
\* every emitted chunk has content = text[start:end] and the intervals of the
\* chunks cover [0, len(text)).
FixedWidthRoundTrip ==
    FixedWidthDone =>
        /\ \A k \in DOMAIN processed_chunks : IsTextSlice(processed_chunks[k])
        /\ CoversText(processed_chunks)

\* C18: fixed-width stride.  For a policy with 0 <= overlap < target_size the
\* starts of consecutive chunks are target_size - overlap apart, in the raw
\* split and in what chunk_file() emits.
FixedWidthStride ==
    /\ (chunk_by = "characters" /\ policy_overlap_size < chunk_size =>
          \A k \in 1..(Len(raw_chunks) - 1) :
              raw_chunks[k + 1].start
                  = raw_chunks[k].start + chunk_size - policy_overlap_size)
    /\ (FixedWidthDone =>
          \A k \in 1..(Len(processed_chunks) - 1) :
              processed_chunks[k + 1].start
                  = processed_chunks[k].start + chunk_size - policy_overlap_size)

\* Witness of C18: three or more chunks were emitted for a policy with an
\* overlap, the last of them shorter than the others.
FixedWidthStrideWitness ==
    /\ FixedWidthDone
    /\ policy_overlap_size > 0
    /\ Len(processed_chunks) >= 3
    /\ Len(processed_chunks[Len(processed_chunks)].content) < chunk_size
    /\ processed_chunks[2].start = processed_chunks[1].start + chunk_size
                                      - policy_overlap_size

\* C19: an invalid fixed-width policy does not loop forever.  With
\* overlap >= target_size, the equal case included, the first iteration of
\* _chunk_by_characters corrects the overlap to target_size // 2, and the
\* list of chunks stays finite: the loop advances, so it ends within
\* len(text) + overlap + 1 iterations.
InvalidPolicyIsCorrected ==
    /\ chunk_by = "characters"
    /\ policy_overlap_size >= chunk_size
    /\ raw_chunks # << >>
    => /\ overlap_size = chunk_size \div 2
       /\ Len(raw_chunks) <= Len(full_text_content) + policy_overlap_size + 1

\* C20: minimum size after post-processing.  Every chunk returned by
\* _apply_overlap_and_min_size, except possibly the last one, has
\* len(content) >= min_chunk_size, whatever the policy and the raw chunks.
MinimumSizeAfterPostProcessing ==
    cpc = "done" =>
        \A k \in 1..(Len(processed_chunks) - 1) :
            Len(processed_chunks[k].content) >= min_chunk_size

---------------------------------------------------------------------------
(* Properties of the post-processing and of the sentence and paragraph      *)
(* splits.                                                                  *)

\* The chunk is one atomic unit longer than chunk_size: a whole sentence of
\* the text in a sentence split.  (An oversized paragraph is cut into
\* fixed-width pieces, so a paragraph split has no such unit.)
OversizedAtomicUnit(chunk) ==
    /\ chunk_by = "sentences"
    /\ Len(chunk.content) > chunk_size
    /\ chunk.content \in Range(SplitSentences(full_text_content, 1))

\* C21: maximum size after post-processing.  Every chunk chunk_file()
\* returns has len(content) <= chunk_size unless it is a single oversized
\* atomic unit: a merge that would exceed chunk_size is not performed.
MaximumSizeAfterPostProcessing ==
    cpc = "done" =>
        \A k \in DOMAIN processed_chunks :
            \/ Len(processed_chunks[k].content) <= chunk_size
            \/ OversizedAtomicUnit(processed_chunks[k])

\* C22: zero-length chunks are always dropped.  For every policy, a
\* min_chunk_size of 0 included, and every split method no chunk that
\* chunk_file() returns has empty content.
ZeroLengthChunksDropped ==
    cpc = "done" =>
        \A k \in DOMAIN processed_chunks : processed_chunks[k].content # << >>

\* C23: sentence scenario.  The text "A. B. C." split by sentences with
\* chunk_size 5, overlap_size 0 and min_chunk_size 0 gives exactly the two
\* chunks "A. B." and "C.", at the offsets of these substrings, 0..5 and
\* 6..8.
SentenceScenario ==
    /\ cpc = "done"
    /\ chunk_by = "sentences"
    /\ full_text_content = SentenceScenarioText
    /\ chunk_size = 5 /\ policy_overlap_size = 0 /\ min_chunk_size = 0
    => processed_chunks =
           << RawChunk(SubSeq(SentenceScenarioText, 1, 5), 0, 5),
              RawChunk(SubSeq(SentenceScenarioText, 7, 8), 6, 8) >>

\* The value of current_offset when the loop of _chunk_by_sentences reaches
\* the sentence at position k: the sum of sentence_len over those before.
RECURSIVE SentenceOffset(_, _)
SentenceOffset(sentences, k) ==
    IF k = 1 THEN 0
    ELSE SentenceOffset(sentences, k - 1) + SentenceLen(sentences[k - 1])

\* _chunk_by_sentences has returned.
SentencesReturned == chunk_by = "sentences" /\ cpc \in {"post", "done"}

\* The sentence at position k is the content of one of the raw chunks, whose
\* offsets are those of this sentence alone.
EmittedAlone(sentences, k) ==
    \E n \in DOMAIN raw_chunks :
        /\ raw_chunks[n].content = sentences[k]
        /\ raw_chunks[n].start = SentenceOffset(sentences, k)
        /\ raw_chunks[n].end = SentenceOffset(sentences, k) + SentenceLen(sentences[k])

\* C24: oversized sentence.  A sentence longer than chunk_size is emitted by
\* _chunk_by_sentences whole, as a chunk that holds this sentence and no
\* other, wherever it stands in the text.
OversizedSentenceAlone ==
    SentencesReturned =>
        LET sentences == SplitSentences(full_text_content, 1)
        IN  \A k \in DOMAIN sentences :
                Len(sentences[k]) > chunk_size => EmittedAlone(sentences, k)

\* Witness of C24: the sentence "..." between two short sentences is a chunk
\* of its own under chunk_size 2, while the sentence before it left room in
\* the buffer.
OversizedSentenceAloneWitness ==
    /\ SentencesReturned
    /\ full_text_content = OversizedSentenceText
    /\ chunk_size = 2
    /\ Len(raw_chunks) = 3
    /\ raw_chunks[2] = RawChunk(<< ".", ".", "." >>, 2, 6)
    /\ EmittedAlone(SplitSentences(full_text_content, 1), 2)

\* _chunk_by_paragraphs has returned.
ParagraphsReturned == chunk_by = "paragraphs" /\ cpc \in {"post", "done"}

\* The tuples of the paragraphs and paragraph fragments the packer of
\* _chunk_by_paragraphs works on (the list results of line 234).
ScannedParagraphs ==
    ScanParagraphs(full_text_content, Paragraphs(full_text_content), 1, 0,
                   [results |-> << >>, overlap_size |-> policy_overlap_size]).results

\* C25: overlap of the sentence and paragraph splits.  With overlap > 0, the
\* chunk that follows a flush begins overlap characters before the place p
\* of the flush, at max(0, p - overlap): p is the offset the sentence loop
\* has reached, and in the paragraph packer the start of the paragraph at
\* which the buffer was flushed.
GreedyBufferOverlap ==
    /\ (SentencesReturned /\ overlap_size > 0 =>
          \A n \in 1..(Len(raw_chunks) - 1) :
              raw_chunks[n + 1].start
                  = Larger(0, raw_chunks[n].end - overlap_size))
    /\ (ParagraphsReturned /\ overlap_size > 0 =>
          \A n \in 1..(Len(raw_chunks) - 1) :
              \E item \in Range(ScannedParagraphs) :
                  /\ item.end = raw_chunks[n].end
                  /\ raw_chunks[n + 1].start
                         = Larger(0, item.start - overlap_size))

\* The positions in ScannedParagraphs of the tuples packed into the raw
\* chunk at position n: those that start at or after the chunk's start and
\* before the start of the next chunk.
PackedInto(n) ==
    {k \in DOMAIN ScannedParagraphs :
        /\ ScannedParagraphs[k].start >= raw_chunks[n].start
        /\ n < Len(raw_chunks) =>
               ScannedParagraphs[k].start < raw_chunks[n + 1].start}

\* C26: end offset of the paragraph split.  Every chunk the paragraph packer
\* emits, flushed or final, ends where the last paragraph or paragraph
\* fragment packed into it ends (checked for policies with
\* overlap < target_size, where the tuples are in text order).
ParagraphEndOffset ==
    ParagraphsReturned /\ policy_overlap_size < chunk_size =>
        \A n \in DOMAIN raw_chunks :
            /\ PackedInto(n) # {}
            /\ raw_chunks[n].end = ScannedParagraphs[Max(PackedInto(n))].end

---------------------------------------------------------------------------
(* Properties of RAGEngine.run. *)

\* A step in which chunking returns no chunk leads to the end of run().
ZeroChunksEndRun ==
    (run_pc = "chunking" /\ run_pc' # "except" /\ total_chunks' = 0)
        => (/\ run_pc' = "finally"
            /\ rpc' = "idle"
            /\ generation_calls' = 0
            /\ run_events' = << "complete" >>
            /\ run_result' = "no_chunks_to_process")

\* The step after retrieve() returned no relevant chunk leads to the end of
\* run().
ZeroRelevantChunksEndRun ==
    (/\ run_pc = "retrieval"
     /\ rpc = "returned"
     /\ relevant_chunks = << >>
     /\ run_pc' # "retrieval")
        => (/\ run_pc' = "finally"
            /\ synthesize_answer_calls' = 0
            /\ run_events' = << "complete" >>
            /\ run_result' = "no_relevant_chunks")

\* C27: pipeline short-circuit.  When chunking returns no chunk the
\* classifier is never invoked, and when retrieve() returns no relevant
\* chunk synthesis is never invoked; in both cases run() goes on to return,
\* having emitted a complete event and no error event, with the explicit
\* nothing-found answer.
PipelineShortCircuit ==
    /\ [][ZeroChunksEndRun]_vars
    /\ [][ZeroRelevantChunksEndRun]_vars
    /\ [](run_result \in {"no_chunks_to_process", "no_relevant_chunks"}
            => /\ run_pc \in {"finally", "returned"}
               /\ run_events = << "complete" >>
               /\ synthesize_answer_calls = 0
               /\ run_result = "no_chunks_to_process"
                      => rpc = "idle" /\ generation_calls = 0)

\* Witness of C27: run() returned the nothing-found answer after the
\* classifier had judged chunks and kept none; one complete event was sent
\* and synthesis was not called.
PipelineShortCircuitWitness ==
    /\ run_pc = "returned"
    /\ run_result = "no_relevant_chunks"
    /\ total_chunks > 0
    /\ generation_calls > 0
    /\ relevant_chunks = << >>
    /\ run_events = << "complete" >>
    /\ synthesize_answer_calls = 0

\* The step of the except clause: one error event, the error answer.
ExceptReportsError ==
    run_pc = "except"
        => (/\ run_pc' = "finally"
            /\ run_events' = << "error" >>
            /\ run_result' = "rag_process_error")

\* Once a stage has raised, no stage runs any more.
NoStageAfterFailure ==
    run_pc \in {"except", "finally", "returned"}
        => (/\ rpc' = rpc
            /\ generation_calls' = generation_calls
            /\ relevant_chunks' = relevant_chunks
            /\ synthesize_answer_calls' = synthesize_answer_calls
            /\ run_pc' \in {"finally", "returned"})

\* C28: Failed is terminal and contained.  When a stage raises inside run(),
\* no later stage runs, exactly one error event and no complete event of
\* rag_process is emitted, and run() returns the error answer.
FailedIsTerminal ==
    /\ [](run_pc = "except" => run_events = << >> /\ run_result = "")
    /\ [][ExceptReportsError]_vars
    /\ [](run_result = "rag_process_error"
            => run_pc \in {"finally", "returned"} /\ run_events = << "error" >>)
    /\ [][NoStageAfterFailure]_vars

\* Witness of C28: load_model() raised out of retrieve(); run() returned the
\* error answer after one error event, and synthesis was never called.
FailedIsTerminalWitness ==
    /\ run_pc = "returned"
    /\ rpc = "propagated"
    /\ run_result = "rag_process_error"
    /\ run_events = << "error" >>
    /\ synthesize_answer_calls = 0

---------------------------------------------------------------------------
(* Properties of the model handling of the retrievers. *)

\* C30: scoped acquisition of the primary retrieval model.  In both
\* retrievers the primary model is loaded while the chunk loop runs, so
\* before the first generation call, and it is not loaded when retrieve()
\* has returned or raised, whether the loop ended normally, stopped at top_k
\* or was left by an exception.
PrimaryModelScoped ==
    /\ rpc \in {"loop", "attempt1", "fallback_load", "attempt2", "attempt3",
                 "fallback_unload", "evaluate", "except", "unwind"}
           => primary_loaded
    /\ (generation_calls > 0 /\ rpc \notin {"returned", "finally", "propagated"})
           => primary_loaded
    /\ rpc \in {"returned", "propagated"} => ~primary_loaded

\* Witness of C30: BestWindowRetriever.retrieve returned after a generation
\* call raised in the chunk loop, before the last chunk; the primary model
\* is unloaded.
PrimaryModelScopedWitness ==
    /\ rpc = "returned"
    /\ strategy = "best_window"
    /\ generation_calls > 0
    /\ error_events > 0
    /\ i < total_chunks
    /\ ~primary_loaded

\* C31: fallback release.  The fallback model is loaded only while the
\* escalation of one chunk is in progress: it is not loaded when the chunk
\* loop starts a chunk, and not loaded when BestWindowRetriever.retrieve has
\* returned, also when a generation attempt of the fallback model raised.
FallbackReleased ==
    /\ fallback_loaded => rpc \in {"attempt2", "attempt3", "fallback_unload"}
    /\ rpc \in {"loop", "attempt1"} => ~fallback_loaded
    /\ rpc = "returned" => ~fallback_loaded

---------------------------------------------------------------------------
(* Properties of the model handling of the synthesis stage. *)

\* A generation call of the synthesis loop is made with the model loaded.
GenerationWithLoadedModel ==
    generation_log' # generation_log => synthesis_loaded

\* C32: scoped acquisition of the synthesis model.  SimpleSynthesis.synthesize
\* loads the model before its first generation call, and the model is not
\* loaded when synthesize() has returned or has raised.
SynthesisModelScoped ==
    /\ [][GenerationWithLoadedModel]_vars
    /\ [](spc \in {"returned", "propagated"} => ~synthesis_loaded)

---------------------------------------------------------------------------
(* Properties of the models loaded during a pipeline run. *)

\* The number of engines whose model is loaded.
HotModels ==
    (IF primary_loaded THEN 1 ELSE 0) + (IF fallback_loaded THEN 1 ELSE 0)
        + (IF synthesis_loaded THEN 1 ELSE 0)

\* The escalation of chunk i is in progress: the fallback model is loaded and
\* attempt 2, attempt 3 or the unload that follows them is the next step.
Escalating == rpc \in {"attempt2", "attempt3", "fallback_unload"}

\* C33: bound on hot models.  In every state of a pipeline run at most two
\* models are loaded, two are loaded only during an escalation and they are
\* the primary and the fallback model, and the synthesis model is never
\* loaded while the primary or the fallback model is, also after a retrieval
\* stage that ended with an error.
BoundOnHotModels ==
    /\ HotModels <= 2
    /\ HotModels = 2 => Escalating /\ primary_loaded /\ fallback_loaded
    /\ synthesis_loaded => ~primary_loaded /\ ~fallback_loaded

---------------------------------------------------------------------------
(* Properties of the progress sink. *)

\* C34: progress events are advisory.  Two runs of retrieve() that differ
\* only in what the sink does with the progress event of a chunk continue at
\* the same control point, so the same chunks are classified and the same
\* generation calls are made: once chunk i has left the head of the loop
\* body, a generation call was made for it.
ProgressEventsAdvisory ==
    /\ (rpc = "loop" /\ i < total_chunks) =>
           \A s1, s2 \in SinkBehaviours :
               AfterProgressEvent(s1) = AfterProgressEvent(s2)
    /\ (i >= 1 /\ rpc # "attempt1") => calls # << >>

---------------------------------------------------------------------------
(* LlamacppInferenceEngine: the lifecycle of the loaded model. *)

MaxLifecycleCalls == 4      \* longest sequence of load_model/unload_model calls

\* How a load_model() call on an engine with nothing loaded can end: the
\* model is constructed (lines 51-60), the model file is missing (lines
\* 34-35), or Llama(...) raises (lines 61-63).
LoadOutcomes == {"returned", "FileNotFoundError", "RuntimeError"}

\* Variant of lines 30-32 that constructs a model on every call.
LoadModelAgain(model, fresh) == fresh

\* lines 30-32 and 51: the value of _loaded_model after a load_model() call
\* that does not raise; fresh is the handle Llama(...) would return.
LoadModel(model, fresh) == IF model # << >> THEN model ELSE fresh

\* One entry of the call history.
LifecycleCall(call, outcome, result, after, constructed) ==
    [call |-> call, outcome |-> outcome, before |-> loaded_model,
     result |-> result, after |-> after, constructed |-> constructed]

\* load_model() (lines 26-63).
CallLoadModel ==
    /\ Len(lifecycle) < MaxLifecycleCalls
    /\ \E outcome \in LoadOutcomes :
          LET fresh == << llama_constructions + 1 >>
              after == IF outcome = "returned"
                          THEN LoadModel(loaded_model, fresh)
                          ELSE loaded_model
              constructed == IF after = fresh \/ outcome = "RuntimeError"
                                THEN 1 ELSE 0
          IN  /\ (loaded_model # << >> => outcome = "returned")
              /\ loaded_model' = after
              /\ llama_constructions' = llama_constructions + constructed
              /\ lifecycle' =
                    Append(lifecycle,
                           LifecycleCall("load", outcome,
                                         IF outcome = "returned" THEN after
                                                                 ELSE << >>,
                                         after, constructed))
    /\ UNCHANGED << rvars, svars, evars, kvars, xvars, tvars >>

\* unload_model() (lines 115-125).
CallUnloadModel ==
    /\ Len(lifecycle) < MaxLifecycleCalls
    /\ loaded_model' = << >>
    /\ lifecycle' = Append(lifecycle,
                           LifecycleCall("unload", "returned", << >>, << >>, 0))
    /\ UNCHANGED << rvars, svars, evars, kvars, xvars, tvars,
                    llama_constructions >>

InitEngine ==
    /\ RetrieveIdle
    /\ relevant_chunks = << >>
    /\ SynthesizeIdle
    /\ RunIdle
    /\ ChunkIdle
    /\ EngineIdle
    /\ ExtractIdle
    /\ TextChunkerIdle

NextEngine ==
    \/ CallLoadModel
    \/ CallUnloadModel

SpecEngine == InitEngine /\ [][NextEngine]_vars

\* The calls of the history that returned.
SuccessfulCalls == {k \in DOMAIN lifecycle : lifecycle[k].outcome = "returned"}

\* C35: the lifecycle of the generation capability is idempotent.  After any
\* sequence of load_model/unload_model calls: a load_model() call on a loaded
\* engine returned the handle it already had and constructed no model, an
\* unload_model() call on an engine with nothing loaded changed nothing, and
\* the engine is loaded exactly when its last successful call was a load.
LifecycleIdempotent ==
    /\ \A k \in DOMAIN lifecycle :
          LET c == lifecycle[k] IN
          /\ (c.call = "load" /\ c.before # << >>) =>
                 /\ c.outcome = "returned"
                 /\ c.result = c.before
                 /\ c.after = c.before
                 /\ c.constructed = 0
          /\ (c.call = "unload" /\ c.before = << >>) =>
                 /\ c.outcome = "returned"
                 /\ c.after = << >>
    /\ (loaded_model # << >>) <=>
           /\ SuccessfulCalls # {}
           /\ lifecycle[Max(SuccessfulCalls)].call = "load"

\* Witness of C35: load_model() was called on a loaded engine, after an
\* unload_model() call on an engine with nothing loaded and a load that
\* raised; one model was constructed and it is the one loaded.
LifecycleIdempotentWitness ==
    /\ Len(lifecycle) = 4
    /\ lifecycle[1].call = "unload" /\ lifecycle[1].before = << >>
    /\ lifecycle[2].call = "load" /\ lifecycle[2].outcome = "FileNotFoundError"
    /\ lifecycle[3].call = "load" /\ lifecycle[3].outcome = "returned"
    /\ lifecycle[4].call = "load" /\ lifecycle[4].before # << >>
    /\ lifecycle[4].result = lifecycle[3].result
    /\ llama_constructions = 1
    /\ loaded_model = << 1 >>

---------------------------------------------------------------------------
(* The rule of the packing loop. *)

\* C36: greedy packing rule.  A chunk is appended to the current non-empty
\* block exactly when the running tokens plus the chunk's tokens plus the
\* safety margin fit the budget; otherwise the block is closed and the chunk
\* starts a new one.  So every chunk after the first of its block fitted with
\* the chunks before it, and for consecutive blocks the summed tokens of the
\* earlier one plus the first chunk of the later one plus the margin exceed
\* the budget.
GreedyPackingRule ==
    /\ \A k \in DOMAIN BlocksSoFar :
          \A pos \in 2..Len(BlocksSoFar[k]) :
              BlockTokens(SubSeq(BlocksSoFar[k], 1, pos - 1))
                  + chunk_tokens[BlocksSoFar[k][pos]] + SafetyMargin
                  <= MaxContextTokens
    /\ \A k \in 1..(Len(BlocksSoFar) - 1) :
          BlockTokens(BlocksSoFar[k]) + chunk_tokens[BlocksSoFar[k + 1][1]]
              + SafetyMargin > MaxContextTokens

\* Witness of C36: the packing is over; two chunks share the first block and
\* the third chunk, which did not fit with them, starts the second block.
GreedyPackingRuleWitness ==
    /\ spc = "generate"
    /\ Len(context_blocks) = 2
    /\ Len(context_blocks[1]) = 2
    /\ ~Oversized(context_blocks[2][1])

---------------------------------------------------------------------------
(* Properties of the merging of undersized chunks. *)

\* The merging loop, from raw chunk k on with the buffer combined, adds a
\* chunk to a buffer whose stripped content already has min_chunk_size
\* characters.
RECURSIVE AccumulatesPastMinSize(_, _, _)
AccumulatesPastMinSize(raw, k, combined) ==
    IF k > Len(raw) THEN FALSE
    ELSE LET full == combined # << >> /\ Len(Strip(combined)) >= min_chunk_size
         IN  IF TooSmallToStand(raw[k].content, combined, k, Len(raw))
                THEN \/ full
                     \/ AccumulatesPastMinSize(raw, k + 1,
                            combined \o raw[k].content \o << " " >>)
                ELSE \/ full
                     \/ AccumulatesPastMinSize(raw, k + 1, << >>)

\* C37: undersized-chunk merging stops at min_size.  In post-processing the
\* buffer of undersized chunks is flushed as soon as it has min_chunk_size
\* characters: no chunk is added to a buffer that already has that many.
MergingStopsAtMinSize ==
    cpc = "done" => ~AccumulatesPastMinSize(raw_chunks, 1, << >>)

---------------------------------------------------------------------------
(* _extract_yes_no, called on its own. *)

MaxOutputWords == 3      \* longest text handed to _extract_yes_no, in words

\* The generated texts _extract_yes_no is tried on.
OutputTexts == UNION { [1..k -> Words] : k \in 0..MaxOutputWords }

InitExtract ==
    /\ RetrieveIdle
    /\ relevant_chunks = << >>
    /\ SynthesizeIdle
    /\ RunIdle
    /\ ChunkIdle
    /\ EngineIdle
    /\ TextChunkerIdle
    /\ llm_response \in OutputTexts
    /\ xpc = "call"
    /\ extracted = ""

\* processed_llm_response = self._extract_yes_no(llm_response)
CallExtractYesNo ==
    /\ xpc = "call"
    /\ extracted' = ExtractYesNo(llm_response)
    /\ xpc' = "returned"
    /\ UNCHANGED << rvars, svars, evars, kvars, lvars, tvars, llm_response >>

NextExtract == CallExtractYesNo

SpecExtract == InitExtract /\ [][NextExtract]_vars

\* The words that are an affirmative or a negative token whatever their case.
AffirmativeTokens == {"da", "YES"}
NegativeTokens == {"net", "No"}

HasAffirmative == \E k \in DOMAIN llm_response : llm_response[k] \in AffirmativeTokens
HasNegative == \E k \in DOMAIN llm_response : llm_response[k] \in NegativeTokens

\* C38: verdict parsing is total and puts the affirmative first.
\* _extract_yes_no returns a verdict for every text: Yes ("da") whenever the
\* text has an affirmative token, also next to a negative one; No ("net")
\* when it has a negative token and no affirmative one; Undefined ("")
\* exactly when it has neither.
VerdictParsing ==
    xpc = "returned" =>
        /\ extracted \in {"da", "net", ""}
        /\ HasAffirmative => extracted = "da"
        /\ (HasNegative /\ ~HasAffirmative) => extracted = "net"
        /\ (extracted = "") <=> (~HasAffirmative /\ ~HasNegative)

\* Witness of C38: a text with a negative token followed by an affirmative
\* one was parsed to Yes.
VerdictParsingWitness ==
    /\ xpc = "returned"
    /\ Len(llm_response) >= 2
    /\ llm_response[1] \in NegativeTokens
    /\ llm_response[2] \in AffirmativeTokens
    /\ extracted = "da"

---------------------------------------------------------------------------
(* Properties of the chunk offsets. *)

\* C39: chunk offsets stay inside the text.  For every split mode and every
\* policy, each chunk chunk_file() returns has
\* 0 <= start <= end <= len(text), also after undersized chunks were merged.
OffsetsInsideText ==
    cpc = "done" =>
        \A k \in DOMAIN processed_chunks :
            /\ 0 <= processed_chunks[k].start
            /\ processed_chunks[k].start <= processed_chunks[k].end
            /\ processed_chunks[k].end <= Len(full_text_content)

---------------------------------------------------------------------------
(* TextChunker.chunk_file: sentences packed into chunks of chunk_size. *)

MaxSentences == 3      \* longest list of sentences sent_tokenize returns

\* len(sentence) of the sentences tried, and the chunk_size values tried.
SentenceLengths == {1, 2, 3, 5}
TextChunkSizes == {2, 3}

\* The characters first..last-1 of sentence k.
Piece(k, first, last) == [sentence |-> k, first |-> first, last |-> last]

\* lines 37-39: the slices of chunk_size characters of sentence k, each a
\* chunk of its own.
SlicesOf(k, sent_length) ==
    [n \in 1..((sent_length + text_chunk_size - 1) \div text_chunk_size) |->
        << Piece(k, (n - 1) * text_chunk_size,
                 Smaller(n * text_chunk_size, sent_length)) >>]

\* " ".join(current_chunk): the buffered sentences, whole and in buffer order.
JoinedChunk(buffer) ==
    [n \in DOMAIN buffer |-> Piece(buffer[n], 0, text_sentences[buffer[n]])]

\* lines 26-29: the state before the loop.
InitTextChunker ==
    /\ RetrieveIdle
    /\ relevant_chunks = << >>
    /\ SynthesizeIdle
    /\ RunIdle
    /\ ChunkIdle
    /\ EngineIdle
    /\ ExtractIdle
    /\ text_sentences \in UNION { [1..n -> SentenceLengths] : n \in 0..MaxSentences }
    /\ text_chunk_size \in TextChunkSizes
    /\ tpc = "loop"
    /\ taken = 0
    /\ text_chunks = << >>
    /\ current_chunk = << >>
    /\ current_length = 0

\* lines 31-49: one iteration of the loop over the sentences.
TakeSentence ==
    /\ tpc = "loop"
    /\ taken < Len(text_sentences)
    /\ taken' = taken + 1
    /\ LET k == taken + 1
           sent_length == text_sentences[k]
       IN  IF sent_length > text_chunk_size
              THEN /\ text_chunks' = text_chunks \o SlicesOf(k, sent_length)
                   /\ UNCHANGED << current_chunk, current_length >>
           ELSE IF current_length + sent_length <= text_chunk_size
              THEN /\ current_chunk' = Append(current_chunk, k)
                   /\ current_length' = current_length + sent_length
                   /\ UNCHANGED text_chunks
           ELSE /\ text_chunks' =
                      IF current_chunk # << >>
                         THEN Append(text_chunks, JoinedChunk(current_chunk))
                         ELSE text_chunks
                /\ current_chunk' = << k >>
                /\ current_length' = sent_length
    /\ UNCHANGED << rvars, svars, evars, kvars, lvars, xvars, text_sentences,
                    text_chunk_size, tpc >>

\* lines 51-52: the loop is over; what the buffer holds becomes the last chunk.
FlushCurrentChunk ==
    /\ tpc = "loop"
    /\ taken = Len(text_sentences)
    /\ text_chunks' =
          IF current_chunk # << >>
             THEN Append(text_chunks, JoinedChunk(current_chunk))
             ELSE text_chunks
    /\ tpc' = "done"
    /\ UNCHANGED << rvars, svars, evars, kvars, lvars, xvars, text_sentences,
                    text_chunk_size, taken, current_chunk, current_length >>

NextTextChunker ==
    \/ TakeSentence
    \/ FlushCurrentChunk

SpecTextChunker == InitTextChunker /\ [][NextTextChunker]_vars

\* The pieces of the chunk list, chunk after chunk.
EmittedPieces == Flatten(text_chunks)

\* C40: TextChunker.chunk_file preserves the order of the source.  The
\* sentences, and the slices of a sentence longer than chunk_size, appear in
\* the chunk list in the order they have in the text, also when an over-long
\* sentence follows shorter sentences that the buffer still holds.
SourceOrderPreserved ==
    \A m, n \in DOMAIN EmittedPieces :
        m < n =>
            \/ EmittedPieces[m].sentence < EmittedPieces[n].sentence
            \/ /\ EmittedPieces[m].sentence = EmittedPieces[n].sentence
               /\ EmittedPieces[m].first < EmittedPieces[n].first

====
